---- MODULE Spec2Model ----
(***************************************************************************)
(* HomeDar catalog backend: product-view tracking, the location backfill   *)
(* task with its cache lock, and the e-mail OTP helpers.                   *)
(*                                                                         *)
(* Time is counted in minutes.  Optional (nullable) values are encoded as  *)
(* sequences of length 0 or 1: None is <<>>, a present value x is <<x>>.   *)
(***************************************************************************)
EXTENDS Integers, Sequences, FiniteSets, TLC

VARIABLES now, profiles, views, lock, run, otps, last, lk, gate, likes, images, req, accounts

vars == <<now, profiles, views, lock, run, otps, last, lk, gate, likes, images, req, accounts>>

\* the tables, the clock and the lock; and the state of the other components
core == <<now, profiles, views, lock, run, otps>>
aux == <<lk, gate, likes, images, req, accounts>>

-----------------------------------------------------------------------------
(* Bounds and input domains *)

MaxTime == 15
MaxViewTime == 5
MaxOtpTime == 20
MaxViews == 3
MaxOtps == 2
\* the codes issued in a behaviour of the account endpoints
MaxAuthOtps == 1
MaxGateTime == 60
MaxRankRows == 4

Visitors == {"v1", "v2"}
Products == {"p1", "p2"}
IPs == {"ip1"}
Workers == {"w1", "w2"}

\* the requests that may be in flight at once, and one that is not
Requests == {"r1", "r2"}
IdleReq == [pc |-> "idle"]

None == <<>>
Some(x) == <<x>>
IsNone(o) == Len(o) = 0
Val(o) == o[1]

\* the (visitor, product) pairs of the requests
ViewPairs == {<<"v1", "p1">>, <<"v1", "p2">>, <<"v2", "p1">>}

\* the (latitude, longitude) a request may carry: none, both, or the
\* latitude alone
CoordInputs == {<<None, None>>, <<Some(1), Some(1)>>, <<Some(2), Some(1)>>, <<Some(2), None>>}

(* Program constants, in minutes *)
ScheduleInterval == 5
LockTimeoutMinutes == 15
ttl_minutes == 10

(* Program constants of the geocoding lookups, in seconds *)
max_total_wait_seconds == 60
sleep_before_request_seconds == 1
sleep_per_retry_seconds == 1

-----------------------------------------------------------------------------
(* VisitorProfile: ensure_visitor_profile_for_request *)

NewProfile(ip, t) ==
  [last_ip |-> Some(ip), country |-> None, city |-> None,
   latitude |-> None, longitude |-> None, last_seen |-> t]

\* get_or_create, then save(update_fields = last_seen [, last_ip])
EnsureProfile(ps, v, ip, t) ==
  LET got == IF v \in DOMAIN ps THEN ps[v] ELSE NewProfile(ip, t)
      upd == [got EXCEPT !.last_seen = t,
                         !.last_ip = IF got.last_ip # Some(ip) THEN Some(ip) ELSE @]
  IN  [x \in DOMAIN ps \cup {v} |-> IF x = v THEN upd ELSE ps[x]]

\* the browser's coordinates are merged into the profile
MergeBrowserCoords(prof, lat, lon) ==
  [prof EXCEPT !.latitude  = IF ~IsNone(lat) /\ @ # lat THEN lat ELSE @,
               !.longitude = IF ~IsNone(lon) /\ @ # lon THEN lon ELSE @]

-----------------------------------------------------------------------------
(* ensure_visitor_profile_for_request called on its own.  service tells    *)
(* what lookup_location would return for the address; lookups counts the   *)
(* calls of lookup_location the function makes: its body has none.         *)

EnsureIPs == {"ip1", "ip2"}
GeoServices == {"data", "no_data"}

EnsureResponse(v, ip, service, changed, lookups) ==
  [op |-> "ensure", visitor |-> v, ip |-> ip, service |-> service,
   ip_changed |-> changed, lookups |-> lookups]

Ensure(v, ip, service) ==
  /\ profiles' = EnsureProfile(profiles, v, ip, now)
  /\ last' = EnsureResponse(v, ip, service,
                            v \in DOMAIN profiles /\ profiles[v].last_ip # Some(ip), 0)
  /\ UNCHANGED <<now, views, lock, run, otps, aux>>

-----------------------------------------------------------------------------
(* ProductView tracking: ProductViewTrackingAPIView.post *)

RowsFor(vs, v, p) == {i \in DOMAIN vs : vs[i].visitor = v /\ vs[i].product = p}

\* variant: only rows viewed at the time of the request count as existing
ExistingCandidatesRecent(vs, v, p) ==
  {i \in RowsFor(vs, v, p) : vs[i].viewed_at >= now}

\* variant: the rows of the product, whoever viewed it
ExistingCandidatesAnyVisitor(vs, v, p) ==
  {i \in DOMAIN vs : vs[i].product = p /\ \A j \in DOMAIN vs : vs[j].viewed_at <= vs[i].viewed_at}

\* filter(visitor, product).order_by("-viewed_at").first(): a row of the pair
\* with the greatest viewed_at (the database picks among equal ones)
ExistingCandidates(vs, v, p) ==
  {i \in RowsFor(vs, v, p) : \A j \in RowsFor(vs, v, p) : vs[j].viewed_at <= vs[i].viewed_at}

\* variant: the place is cleared on every repeat view
MergeExistingAlwaysCleared(row, lat, lon, t) ==
  LET latChanged == ~IsNone(lat) /\ row.latitude # lat
      lonChanged == ~IsNone(lon) /\ row.longitude # lon
  IN  [row EXCEPT !.latitude  = IF latChanged THEN lat ELSE @,
                  !.longitude = IF lonChanged THEN lon ELSE @,
                  !.viewed_at = t,
                  !.city      = None,
                  !.country   = None]

\* variant: the place is cleared only when both coordinates changed
MergeExistingBothChanged(row, lat, lon, t) ==
  LET latChanged == ~IsNone(lat) /\ row.latitude # lat
      lonChanged == ~IsNone(lon) /\ row.longitude # lon
      location_changed == latChanged /\ lonChanged
  IN  [row EXCEPT !.latitude  = IF latChanged THEN lat ELSE @,
                  !.longitude = IF lonChanged THEN lon ELSE @,
                  !.viewed_at = t,
                  !.city      = IF location_changed THEN None ELSE @,
                  !.country   = IF location_changed THEN None ELSE @]

\* the branch taken for an existing row
MergeExisting(row, lat, lon, t) ==
  LET latChanged == ~IsNone(lat) /\ row.latitude # lat
      lonChanged == ~IsNone(lon) /\ row.longitude # lon
      location_changed == latChanged \/ lonChanged
  IN  [row EXCEPT !.latitude  = IF latChanged THEN lat ELSE @,
                  !.longitude = IF lonChanged THEN lon ELSE @,
                  !.viewed_at = t,
                  !.city      = IF location_changed THEN None ELSE @,
                  !.country   = IF location_changed THEN None ELSE @]

\* the row created for a first view
NewView(v, p, prof, lat, lon, t) ==
  [visitor |-> v, product |-> p, viewed_at |-> t,
   country |-> prof.country, city |-> prof.city,
   latitude |-> lat, longitude |-> lon]

\* the profile table after lines 294-305 of the handler
ProfilesAfterView(ps, v, ip, lat, lon, t) ==
  LET ps1 == EnsureProfile(ps, v, ip, t)
  IN  [ps1 EXCEPT ![v] = MergeBrowserCoords(ps1[v], lat, lon)]

\* location_changed, as the handler computes it for the row it found
LocationChanged(row, lat, lon) ==
  \/ ~IsNone(lat) /\ row.latitude # lat
  \/ ~IsNone(lon) /\ row.longitude # lon

\* the response, with three observations of the request kept for reference:
\* location_changed, whether the row found carried a country or a city, and
\* whether its viewed_at was earlier than the time of the request
ViewResponse(dup, changed, had, older) ==
  [op |-> "recordView", duplicate |-> dup, location_changed |-> changed,
   had_place |-> had, refreshed |-> older]

RecordView(v, p, ip, lat, lon) ==
  LET ps1  == ProfilesAfterView(profiles, v, ip, lat, lon, now)
      cand == ExistingCandidates(views, v, p)
  IN  /\ profiles' = ps1
      /\ IF cand # {}
           THEN \E i \in cand :
                  /\ views' = [views EXCEPT ![i] = MergeExisting(views[i], lat, lon, now)]
                  /\ last' = ViewResponse(TRUE, LocationChanged(views[i], lat, lon),
                                          ~IsNone(views[i].country) \/ ~IsNone(views[i].city),
                                          views[i].viewed_at < now)
           ELSE /\ Len(views) < MaxViews
                /\ views' = Append(views, NewView(v, p, ps1[v], lat, lon, now))
                /\ last' = ViewResponse(FALSE, FALSE, FALSE, FALSE)
      /\ UNCHANGED <<now, lock, run, otps, aux>>

\* The handler as two steps of a request r: lines 294-314 read the row of
\* the pair, lines 316-362 write; other requests may run in between.
RecordViewRead(r, v, p, ip, lat, lon) ==
  LET cand == ExistingCandidates(views, v, p)
  IN  /\ req[r].pc = "idle"
      /\ profiles' = ProfilesAfterView(profiles, v, ip, lat, lon, now)
      /\ \E e \in (IF cand = {} THEN {None} ELSE {Some(i) : i \in cand}) :
           req' = [req EXCEPT ![r] =
                     [pc |-> "write", op |-> "recordView", visitor |-> v, product |-> p,
                      latitude |-> lat, longitude |-> lon, at |-> now, existing |-> e,
                      row |-> IF IsNone(e) THEN None ELSE Some(views[Val(e)])]]
      /\ last' = [op |-> "recordView", request |-> r, status |-> "running"]
      /\ UNCHANGED <<now, views, lock, run, otps, lk, gate, likes, images, accounts>>

\* existing.save(update_fields=...) writes the named columns of the instance
\* read earlier; create() inserts a row
RecordViewWrite(r) ==
  LET q == req[r]
  IN  /\ q.pc = "write"
      /\ q.op = "recordView"
      /\ IF ~IsNone(q.existing)
           THEN LET i       == Val(q.existing)
                    merged  == MergeExisting(Val(q.row), q.latitude, q.longitude, q.at)
                    changed == LocationChanged(Val(q.row), q.latitude, q.longitude)
                IN  /\ views' = [views EXCEPT ![i] =
                                   IF changed
                                     THEN [@ EXCEPT !.viewed_at = merged.viewed_at,
                                                    !.latitude = merged.latitude,
                                                    !.longitude = merged.longitude,
                                                    !.city = merged.city,
                                                    !.country = merged.country]
                                   ELSE [@ EXCEPT !.viewed_at = merged.viewed_at]]
                    /\ last' = [op |-> "recordView", request |-> r, status |-> "done",
                                duplicate |-> TRUE]
           ELSE /\ Len(views) < MaxViews
                /\ views' = Append(views, NewView(q.visitor, q.product, profiles[q.visitor],
                                                  q.latitude, q.longitude, q.at))
                /\ last' = [op |-> "recordView", request |-> r, status |-> "done",
                            duplicate |-> FALSE]
      /\ req' = [req EXCEPT ![r] = IdleReq]
      /\ UNCHANGED <<now, profiles, lock, run, otps, lk, gate, likes, images, accounts>>


-----------------------------------------------------------------------------
(* The reverse-geocoding service, seen from its caller: the country and    *)
(* city it names for a coordinate pair, and what one lookup can give back. *)

GeoCountry(lat, lon) == Some(<<"country", lat, lon>>)
GeoCity(lat, lon) == Some(<<"city", lat, lon>>)

LookupOutcomes == {"both", "country", "city", "none", "raise"}

LookupCountry(o, lat, lon) == IF o \in {"both", "country"} THEN GeoCountry(lat, lon) ELSE None
LookupCity(o, lat, lon) == IF o \in {"both", "city"} THEN GeoCity(lat, lon) ELSE None

-----------------------------------------------------------------------------
(* One lookup against the geocoding service: lookup_location ("forward")   *)
(* and lookup_location_from_coords ("reverse").  elapsed is                *)
(* time.time() - start_time in seconds; requests counts the calls of       *)
(* requests.get, only_retryable tells that each of them so far was         *)
(* answered with a status the lookup retries on, and response is what the  *)
(* latest of them ended in.                                                *)

LookupKinds == {"forward", "reverse"}

\* what one call of requests.get can end in: an exception of the transport,
\* a status, or a success whose body is an object, does not parse, or parses
\* to something that is not an object
Responses ==
  {"exception", "429", "501", "503", "403", "404", "ok_object", "ok_unparsable", "ok_other"}

\* response.status_code; 0 stands for no response
StatusCode(resp) ==
  CASE resp = "exception" -> 0
    [] resp = "429" -> 429
    [] resp = "501" -> 501
    [] resp = "503" -> 503
    [] resp = "403" -> 403
    [] resp = "404" -> 404
    [] OTHER -> 200

\* variant: every status that is not a success is retried
retry_statuses_all == 400..599

\* the statuses both lookups sleep and retry on
retry_statuses == {429, 500, 502, 503, 504}

\* the seconds one call of requests.get can take
Durations == {0, 1, 2}

IdleLookup ==
  [pc |-> "idle", kind |-> "forward", elapsed |-> 0, first_request |-> TRUE,
   requests |-> 0, only_retryable |-> TRUE, result |-> "none", response |-> "none"]

LookupStep(l) == [op |-> "lookup", kind |-> l.kind, result |-> "pending"]
LookupReturned(l, r) == [op |-> "lookup", kind |-> l.kind, result |-> r]

\* the call, up to the head of the loop
LookupStart(kind) ==
  /\ lk.pc \in {"idle", "done"}
  /\ lk' = [IdleLookup EXCEPT !.pc = "check", !.kind = kind]
  /\ last' = LookupStep(lk')
  /\ UNCHANGED <<core, gate, likes, images, req, accounts>>

\* the head of the loop: the elapsed time is compared with the cap; the
\* reverse lookup then sleeps before every request but its first
LookupCheck ==
  /\ lk.pc = "check"
  /\ IF lk.elapsed > max_total_wait_seconds
       THEN /\ lk' = [lk EXCEPT !.pc = "done", !.result = "none"]
            /\ last' = LookupReturned(lk, "none")
       ELSE /\ lk' = [lk EXCEPT !.pc = "request",
                                !.first_request = FALSE,
                                !.elapsed = IF lk.kind = "reverse" /\ ~lk.first_request
                                              THEN @ + sleep_before_request_seconds ELSE @]
            /\ last' = LookupStep(lk)
  /\ UNCHANGED <<core, gate, likes, images, req, accounts>>

\* what the lookup does with a response: "retry", or the result it returns
OnResponse(resp) ==
  CASE resp = "exception"                    -> "none"
    [] StatusCode(resp) = 403                -> "none"
    [] StatusCode(resp) \in retry_statuses \ {403} -> "retry"
    [] StatusCode(resp) >= 400 /\ StatusCode(resp) \notin retry_statuses \cup {403} -> "none"
    [] resp = "ok_unparsable"                -> "none"
    [] resp = "ok_other"                     -> "raise"
    [] resp = "ok_object"                    -> "data"

\* requests.get and the handling of its response
LookupRequest(resp, dur) ==
  /\ lk.pc = "request"
  /\ LET after == [lk EXCEPT !.elapsed = @ + dur, !.requests = @ + 1, !.response = resp]
         todo  == OnResponse(resp)
     IN  IF todo = "retry"
           THEN /\ lk' = [after EXCEPT !.pc = "check",
                                       !.elapsed = @ + sleep_per_retry_seconds]
                /\ last' = LookupStep(lk)
           ELSE /\ lk' = [after EXCEPT !.pc = "done", !.result = todo,
                                       !.only_retryable = FALSE]
                /\ last' = LookupReturned(lk, todo)
  /\ UNCHANGED <<core, gate, likes, images, req, accounts>>

-----------------------------------------------------------------------------
(* The cache entry backfill_location_from_coords:running.  owner is a      *)
(* ghost field: the cache stores the value 'running' for every run.        *)

LockPresent(l, t) == ~IsNone(l) /\ t < Val(l).expires

\* cache.add(lock_key, 'running', lock_timeout): set if absent
CacheAdd(l, w, t) ==
  IF LockPresent(l, t) THEN l
  ELSE Some([value |-> "running", expires |-> t + LockTimeoutMinutes, owner |-> w])

\* cache.delete(lock_key)
CacheDelete(l) == None

\* the entry after the clock has reached t: Redis drops it at its expiry
CacheAt(l, t) == IF LockPresent(l, t) THEN l ELSE None

-----------------------------------------------------------------------------
(* backfill_location_from_coords *)

IdleRun ==
  [pc |-> "idle", todo |-> {}, processed_count |-> 0, cur |-> <<>>,
   country |-> None, city |-> None,
   updated_views |-> 0, updated_visitors |-> 0, geoCalls |-> 0, dbOps |-> 0]

Missing(r) == IsNone(r.country) \/ IsNone(r.city)

\* variant: every row with both coordinates, placed or not
ViewsWithCoordsAll(vs) ==
  {i \in DOMAIN vs : ~IsNone(vs[i].latitude) /\ ~IsNone(vs[i].longitude)}

\* views_with_coords: rows with both coordinates and a missing country or city
ViewsWithCoords(vs) ==
  {i \in DOMAIN vs : ~IsNone(vs[i].latitude) /\ ~IsNone(vs[i].longitude) /\ Missing(vs[i])}

DistinctCoords(vs) == {<<vs[i].latitude, vs[i].longitude>> : i \in ViewsWithCoords(vs)}

\* update_data applied to one row
ApplyUpdate(r, country, city) ==
  [r EXCEPT !.country = IF ~IsNone(country) THEN country ELSE @,
            !.city    = IF ~IsNone(city) THEN city ELSE @]

\* variant: the rows to fix, whatever their coordinates
ViewsToUpdateAnyCoords(vs, c) == ViewsWithCoords(vs)

\* views_to_update: views_with_coords.filter(latitude=lat, longitude=lon)
ViewsToUpdate(vs, c) ==
  {i \in ViewsWithCoords(vs) : vs[i].latitude = c[1] /\ vs[i].longitude = c[2]}

VisitorsToUpdate(ps, c) ==
  {v \in DOMAIN ps : ps[v].latitude = c[1] /\ ps[v].longitude = c[2] /\ Missing(ps[v])}

Running(w) == [op |-> "backfill", worker |-> w, status |-> "running"]

Returned(w, st, r) ==
  [op |-> "backfill", worker |-> w, status |-> st,
   processed_count |-> r.processed_count, updated_views |-> r.updated_views,
   updated_visitors |-> r.updated_visitors, geoCalls |-> r.geoCalls, dbOps |-> r.dbOps]

LoopHead(todo) == IF todo = {} THEN "release" ELSE "lookup"

\* lines 79-80, lock acquired
BackfillAcquire(w) ==
  /\ run[w].pc = "idle"
  /\ ~LockPresent(lock, now)
  /\ lock' = CacheAdd(lock, w, now)
  /\ run' = [run EXCEPT ![w] = [IdleRun EXCEPT !.pc = "select"]]
  /\ last' = Running(w)
  /\ UNCHANGED <<now, profiles, views, otps, aux>>

\* variant: the skipped invocation releases the lock like the other exits
BackfillSkippedReleases(w) ==
  /\ run[w].pc = "idle"
  /\ LockPresent(lock, now)
  /\ lock' = CacheDelete(lock)
  /\ last' = Returned(w, "skipped", IdleRun)
  /\ UNCHANGED <<now, profiles, views, run, otps, aux>>

\* lines 79-85, lock held by someone
BackfillSkipped(w) ==
  /\ run[w].pc = "idle"
  /\ LockPresent(lock, now)
  /\ lock' = CacheAdd(lock, w, now)
  /\ last' = Returned(w, "skipped", IdleRun)
  /\ UNCHANGED <<now, profiles, views, run, otps, aux>>

\* lines 89-103, nothing to fix
BackfillNothingToFix(w) ==
  /\ run[w].pc = "select"
  /\ ViewsWithCoords(views) = {}
  /\ lock' = CacheDelete(lock)
  /\ last' = Returned(w, "success", [run[w] EXCEPT !.dbOps = @ + 1])
  /\ run' = [run EXCEPT ![w] = IdleRun]
  /\ UNCHANGED <<now, profiles, views, otps, aux>>

\* lines 89-96, rows to fix exist
BackfillSelect(w) ==
  /\ run[w].pc = "select"
  /\ ViewsWithCoords(views) # {}
  /\ run' = [run EXCEPT ![w].pc = "list", ![w].dbOps = @ + 1]
  /\ last' = Running(w)
  /\ UNCHANGED <<now, profiles, views, lock, otps, aux>>

\* lines 106-110
BackfillList(w) ==
  /\ run[w].pc = "list"
  /\ LET cl == DistinctCoords(views)
     IN  run' = [run EXCEPT ![w].pc = LoopHead(cl), ![w].todo = cl,
                            ![w].processed_count = Cardinality(cl), ![w].dbOps = @ + 1]
  /\ last' = Running(w)
  /\ UNCHANGED <<now, profiles, views, lock, otps, aux>>

\* variant: an exception of the lookup ends the run by the error exit
BackfillLookupAborts(w, outcomes) ==
  /\ run[w].pc = "lookup"
  /\ \E c \in run[w].todo, o \in outcomes :
       LET rest    == run[w].todo \ {c}
           country == LookupCountry(o, c[1], c[2])
           city    == LookupCity(o, c[1], c[2])
       IN  IF o = "raise"
             THEN /\ run' = [run EXCEPT ![w] = IdleRun]
                  /\ lock' = CacheDelete(lock)
                  /\ last' = Returned(w, "error", IdleRun)
             ELSE /\ run' = IF o = "none"
                               THEN [run EXCEPT ![w].pc = LoopHead(rest), ![w].todo = rest,
                                                ![w].geoCalls = @ + 1]
                               ELSE [run EXCEPT ![w].pc = "update_views", ![w].todo = rest,
                                                ![w].cur = c, ![w].country = country,
                                                ![w].city = city, ![w].geoCalls = @ + 1]
                  /\ lock' = lock
                  /\ last' = Running(w)
  /\ UNCHANGED <<now, profiles, views, otps, aux>>

\* lines 113-130 and 162-167: one pair of coord_list is looked up
BackfillLookup(w, outcomes) ==
  /\ run[w].pc = "lookup"
  /\ \E c \in run[w].todo, o \in outcomes :
       LET rest    == run[w].todo \ {c}
           country == LookupCountry(o, c[1], c[2])
           city    == LookupCity(o, c[1], c[2])
       IN  run' = IF o \in {"none", "raise"}
                    THEN [run EXCEPT ![w].pc = LoopHead(rest), ![w].todo = rest,
                                     ![w].geoCalls = @ + 1]
                    ELSE [run EXCEPT ![w].pc = "update_views", ![w].todo = rest,
                                     ![w].cur = c, ![w].country = country,
                                     ![w].city = city, ![w].geoCalls = @ + 1]
  /\ last' = Running(w)
  /\ UNCHANGED <<now, profiles, views, lock, otps, aux>>

\* lines 132-140
BackfillUpdateViews(w) ==
  /\ run[w].pc = "update_views"
  /\ LET idx == ViewsToUpdate(views, run[w].cur)
     IN  /\ views' = [i \in DOMAIN views |->
                        IF i \in idx THEN ApplyUpdate(views[i], run[w].country, run[w].city)
                        ELSE views[i]]
         /\ run' = [run EXCEPT ![w].pc = "update_visitors",
                               ![w].updated_views = @ + Cardinality(idx),
                               ![w].dbOps = @ + 1]
  /\ last' = Running(w)
  /\ UNCHANGED <<now, profiles, lock, otps, aux>>

\* lines 142-160
BackfillUpdateVisitors(w) ==
  /\ run[w].pc = "update_visitors"
  /\ LET vis == VisitorsToUpdate(profiles, run[w].cur)
     IN  /\ profiles' = [v \in DOMAIN profiles |->
                           IF v \in vis THEN ApplyUpdate(profiles[v], run[w].country, run[w].city)
                           ELSE profiles[v]]
         /\ run' = [run EXCEPT ![w].pc = LoopHead(run[w].todo),
                               ![w].cur = <<>>, ![w].country = None, ![w].city = None,
                               ![w].updated_visitors = @ + Cardinality(vis),
                               ![w].dbOps = @ + 1]
  /\ last' = Running(w)
  /\ UNCHANGED <<now, views, lock, otps, aux>>

\* lines 132-167: an update of the pair raises; the inner handler logs it and
\* the loop goes on with the next pair
BackfillUpdateRaises(w) ==
  /\ run[w].pc \in {"update_views", "update_visitors"}
  /\ run' = [run EXCEPT ![w].pc = LoopHead(run[w].todo),
                        ![w].cur = <<>>, ![w].country = None, ![w].city = None,
                        ![w].dbOps = @ + 1]
  /\ last' = Running(w)
  /\ UNCHANGED <<now, profiles, views, lock, otps, aux>>

\* lines 169-176
BackfillRelease(w) ==
  /\ run[w].pc = "release"
  /\ lock' = CacheDelete(lock)
  /\ last' = Returned(w, "success", run[w])
  /\ run' = [run EXCEPT ![w] = IdleRun]
  /\ UNCHANGED <<now, profiles, views, otps, aux>>

\* variant: the error exit returns without deleting the lock entry
BackfillErrorLeaks(w) ==
  /\ run[w].pc \in {"select", "list"}
  /\ lock' = lock
  /\ last' = Returned(w, "error", IdleRun)
  /\ run' = [run EXCEPT ![w] = IdleRun]
  /\ UNCHANGED <<now, profiles, views, otps, aux>>

\* lines 178-188: a query of lines 89-107 raises
BackfillError(w) ==
  /\ run[w].pc \in {"select", "list"}
  /\ lock' = CacheDelete(lock)
  /\ last' = Returned(w, "error", IdleRun)
  /\ run' = [run EXCEPT ![w] = IdleRun]
  /\ UNCHANGED <<now, profiles, views, otps, aux>>

-----------------------------------------------------------------------------
(* E-mail one-time codes: utils/otp.py.  otps holds the EmailOTP rows in   *)
(* the order of their creation, so a later index is a later created_at.    *)

RawEmails == {" A@X.io "}
Purposes == {"signup"}
Codes == {"0000", "0001"}
SubmittedCodes == {"0000", " 0001 ", ""}

\* (email or "").strip().lower(), on the addresses above
NormalizeEmail(e) == IF e = " A@X.io " THEN "a@x.io" ELSE e

\* (code or "").strip(), on the submissions above
NormalizeCode(c) == IF c = " 0001 " THEN "0001" ELSE c

\* EmailOTP.max_attempts, the model default
max_attempts == 5

\* EmailOTP.is_expired
is_expired(otp, t) == t > otp.expires_at

\* EmailOTP.is_locked
is_locked(otp) == otp.attempt_count >= otp.max_attempts

OtpsFor(os, e, p) == {i \in DOMAIN os : os[i].email = e /\ os[i].purpose = p}

\* variant: order_by("created_at"), the oldest record
LatestOtpOldest(os, e, p) ==
  IF OtpsFor(os, e, p) = {} THEN 0
  ELSE CHOOSE i \in OtpsFor(os, e, p) : \A j \in OtpsFor(os, e, p) : i <= j

\* filter(email, purpose).order_by("-created_at").first(): an index, or 0
LatestOtp(os, e, p) ==
  IF OtpsFor(os, e, p) = {} THEN 0
  ELSE CHOOSE i \in OtpsFor(os, e, p) : \A j \in OtpsFor(os, e, p) : j <= i

\* variant: the update matches no row
InvalidateNone(os, e, p, t) == os

\* filter(email, purpose, used=False).update(used=True, expires_at=now)
InvalidateActive(os, e, p, t) ==
  [i \in DOMAIN os |->
     IF os[i].email = e /\ os[i].purpose = p /\ ~os[i].used
       THEN [os[i] EXCEPT !.used = TRUE, !.expires_at = t]
       ELSE os[i]]

NewOtp(e, p, c, t) ==
  [email |-> e, purpose |-> p, code |-> c, expires_at |-> t + ttl_minutes,
   used |-> FALSE, attempt_count |-> 0, max_attempts |-> max_attempts]

\* create_or_refresh_otp; c is the code generate_4_digit_code() draws
CreateOrRefreshOtp(email, p, c) ==
  LET e == NormalizeEmail(email)
  IN  /\ IF e = ""
           THEN /\ last' = [op |-> "issue", raised |-> TRUE]
                /\ otps' = otps
           ELSE /\ Len(otps) < MaxOtps
                /\ otps' = Append(InvalidateActive(otps, e, p, now), NewOtp(e, p, c, now))
                /\ last' = [op |-> "issue", raised |-> FALSE]
      /\ UNCHANGED <<now, profiles, views, lock, run, aux>>

\* variant: the comparison comes before the lockout check
ValidateRecordCompareFirst(otp, code, t) ==
  IF is_expired(otp, t)
    THEN [otp |-> [otp EXCEPT !.used = TRUE], valid |-> FALSE, error_code |-> "code_expired"]
  ELSE IF otp.code = code
    THEN [otp |-> [otp EXCEPT !.used = TRUE], valid |-> TRUE, error_code |-> "none"]
  ELSE IF is_locked(otp)
    THEN [otp |-> otp, valid |-> FALSE, error_code |-> "too_many_attempts"]
  ELSE LET o2 == [otp EXCEPT !.attempt_count = @ + 1]
       IN  [otp |-> o2, valid |-> FALSE,
            error_code |-> IF is_locked(o2) THEN "too_many_attempts" ELSE "invalid_code"]

\* variant: the lockout check comes before the expiry check
ValidateRecordLockFirst(otp, code, t) ==
  IF is_locked(otp)
    THEN [otp |-> otp, valid |-> FALSE, error_code |-> "too_many_attempts"]
  ELSE IF is_expired(otp, t)
    THEN [otp |-> [otp EXCEPT !.used = TRUE], valid |-> FALSE, error_code |-> "code_expired"]
  ELSE IF otp.code # code
    THEN LET o2 == [otp EXCEPT !.attempt_count = @ + 1]
         IN  [otp |-> o2, valid |-> FALSE,
              error_code |-> IF is_locked(o2) THEN "too_many_attempts" ELSE "invalid_code"]
  ELSE [otp |-> [otp EXCEPT !.used = TRUE], valid |-> TRUE, error_code |-> "none"]

\* variant: after the increment the lockout is tested with > instead of >=
ValidateRecordLateLock(otp, code, t) ==
  IF is_expired(otp, t)
    THEN [otp |-> [otp EXCEPT !.used = TRUE], valid |-> FALSE, error_code |-> "code_expired"]
  ELSE IF is_locked(otp)
    THEN [otp |-> otp, valid |-> FALSE, error_code |-> "too_many_attempts"]
  ELSE IF otp.code # code
    THEN LET o2 == [otp EXCEPT !.attempt_count = @ + 1]
         IN  [otp |-> o2, valid |-> FALSE,
              error_code |-> IF o2.attempt_count > o2.max_attempts
                               THEN "too_many_attempts" ELSE "invalid_code"]
  ELSE [otp |-> [otp EXCEPT !.used = TRUE], valid |-> TRUE, error_code |-> "none"]

\* validate_otp from line 119 on, for the record found: the record as it is
\* saved and the result
ValidateRecord(otp, code, t) ==
  IF is_expired(otp, t)
    THEN [otp |-> [otp EXCEPT !.used = TRUE], valid |-> FALSE, error_code |-> "code_expired"]
  ELSE IF is_locked(otp)
    THEN [otp |-> otp, valid |-> FALSE, error_code |-> "too_many_attempts"]
  ELSE IF otp.code # code
    THEN LET o2 == [otp EXCEPT !.attempt_count = @ + 1]
         IN  [otp |-> o2, valid |-> FALSE,
              error_code |-> IF is_locked(o2) THEN "too_many_attempts" ELSE "invalid_code"]
  ELSE [otp |-> [otp EXCEPT !.used = TRUE], valid |-> TRUE, error_code |-> "none"]

\* the result, with one observation kept for reference: whether the
\* submission equalled the code of the record found
ValidateResult(valid, err, found, matched) ==
  [op |-> "validate", valid |-> valid, error_code |-> err, found |-> found, matched |-> matched]

ValidateOtp(email, p, submitted) ==
  LET e    == NormalizeEmail(email)
      code == NormalizeCode(submitted)
      i    == LatestOtp(otps, e, p)
  IN  /\ IF e = "" \/ code = "" \/ i = 0
           THEN /\ otps' = otps
                /\ last' = ValidateResult(FALSE, "invalid_code", FALSE, FALSE)
           ELSE LET r == ValidateRecord(otps[i], code, now)
                IN  /\ otps' = [otps EXCEPT ![i] = r.otp]
                    /\ last' = ValidateResult(r.valid, r.error_code, TRUE, otps[i].code = code)
      /\ UNCHANGED <<now, profiles, views, lock, run, aux>>

\* create_or_refresh_otp and validate_otp as two steps each of a request r:
\* the update of lines 33-40 and the create of lines 45-52; the read of
\* lines 100-107 and the checks and save of lines 119-170 on the instance
\* read.  Other requests may run between the two steps.
IssueInvalidate(r, email, p) ==
  LET e == NormalizeEmail(email)
  IN  /\ req[r].pc = "idle"
      /\ e # ""
      /\ otps' = InvalidateActive(otps, e, p, now)
      /\ req' = [req EXCEPT ![r] = [pc |-> "create", op |-> "issue", email |-> e, purpose |-> p]]
      /\ last' = [op |-> "issue", request |-> r, status |-> "running"]
      /\ UNCHANGED <<now, profiles, views, lock, run, lk, gate, likes, images, accounts>>

IssueCreate(r, c) ==
  /\ req[r].pc = "create"
  /\ Len(otps) < MaxOtps
  /\ otps' = Append(otps, NewOtp(req[r].email, req[r].purpose, c, now))
  /\ req' = [req EXCEPT ![r] = IdleReq]
  /\ last' = [op |-> "issue", request |-> r, status |-> "done"]
  /\ UNCHANGED <<now, profiles, views, lock, run, lk, gate, likes, images, accounts>>

\* the result of a validate step; compared tells whether line 142 was reached
RaceValidateResult(r, valid, err, compared) ==
  [op |-> "validate", request |-> r, status |-> "done", valid |-> valid,
   error_code |-> err, compared |-> compared]

ValidateRead(r, email, p, submitted) ==
  LET e    == NormalizeEmail(email)
      code == NormalizeCode(submitted)
      i    == LatestOtp(otps, e, p)
  IN  /\ req[r].pc = "idle"
      /\ IF e = "" \/ code = "" \/ i = 0
           THEN /\ req' = req
                /\ last' = RaceValidateResult(r, FALSE, "invalid_code", FALSE)
           ELSE /\ req' = [req EXCEPT ![r] = [pc |-> "decide", op |-> "validate", index |-> i,
                                               row |-> otps[i], code |-> code]]
                /\ last' = [op |-> "validate", request |-> r, status |-> "running"]
      /\ UNCHANGED <<now, profiles, views, lock, run, otps, lk, gate, likes, images, accounts>>

\* save(update_fields=["used"]) or save(update_fields=["attempt_count"])
\* write the value of the instance to the one column
ValidateWrite(r) ==
  LET q   == req[r]
      res == ValidateRecord(q.row, q.code, now)
  IN  /\ q.pc = "decide"
      /\ otps' = [otps EXCEPT ![q.index] =
                    [@ EXCEPT !.used = IF res.otp.used # q.row.used THEN res.otp.used ELSE @,
                              !.attempt_count = IF res.otp.attempt_count # q.row.attempt_count
                                                  THEN res.otp.attempt_count ELSE @]]
      /\ req' = [req EXCEPT ![r] = IdleReq]
      /\ last' = RaceValidateResult(r, res.valid, res.error_code,
                                    ~is_expired(q.row, now) /\ ~is_locked(q.row))
      /\ UNCHANGED <<now, profiles, views, lock, run, lk, gate, likes, images, accounts>>

-----------------------------------------------------------------------------
(* Password reset, first step: PasswordResetRequestCodeAPIView.post.  The  *)
(* serializer resolves username_or_email to a user, the view issues a code *)
(* for the user's e-mail address and sends it.                             *)

\* the accounts: username and e-mail address
Users == {[username |-> "bob", email |-> "bob@x.io"]}

\* what a caller submits as username_or_email
ResetInputs == {"bob", "bob@x.io", "eve"}

\* the accounts the submitted value names, by username or by e-mail address
UsersFor(value) == {u \in Users : u.username = value \/ u.email = value}

\* PasswordResetRequestCodeSerializer: is_valid and context["user"].  For a
\* value that names no account it either refuses the request or leaves the
\* context without a user
ResetSerializerOutcomes(value) ==
  IF UsersFor(value) # {}
    THEN {[valid |-> TRUE, user |-> Some(u)] : u \in UsersFor(value)}
    ELSE {[valid |-> FALSE, user |-> None], [valid |-> TRUE, user |-> None]}

\* whether send_mail returns or raises
Deliveries == {"sent", "raises"}

ResetResponse(value, status, body, delivery) ==
  [op |-> "resetRequest", username_or_email |-> value, status |-> status,
   body |-> body, delivery |-> delivery, known |-> UsersFor(value) # {}]

PasswordResetRequestCode(value, c, delivery) ==
  \E s \in ResetSerializerOutcomes(value) :
    /\ IF ~s.valid
         THEN \* is_valid(raise_exception=True): 400 with the field errors
              /\ otps' = otps
              /\ last' = ResetResponse(value, 400, "field_errors", "none")
         ELSE IF IsNone(s.user)
         THEN \* user.email on None: AttributeError, answered 500
              /\ otps' = otps
              /\ last' = ResetResponse(value, 500, "server_error", "none")
         ELSE /\ Len(otps) < MaxOtps
              /\ otps' = Append(InvalidateActive(otps, Val(s.user).email, "password_reset", now),
                                NewOtp(Val(s.user).email, "password_reset", c, now))
              /\ last' = ResetResponse(value, 200, "generic_message", delivery)
    /\ UNCHANGED <<now, profiles, views, lock, run, aux>>

-----------------------------------------------------------------------------
(* The endpoints that create an account or replace a password: views.py.   *)
(* accounts is the User table; a row carries the username, the e-mail      *)
(* address, the password set, the normalised answer of the security        *)
(* question (None for an account without questions) and the visitor linked.*)

\* the fields a caller submits, all of a form the field validators accept
AuthInputs ==
  [username : {"amy"}, password : {"passw0rd2"}, answer : {" Blue ", "red"}]

\* raw_answer.strip().lower(), on the answers above
NormalizeAnswer(a) == IF a = " Blue " THEN "blue" ELSE a

\* the accounts present before the requests modelled: those of Users
SeedAccounts ==
  {[username |-> u.username, email |-> u.email, password |-> "passw0rd1",
    answer |-> Some("blue"), visitor |-> None] : u \in Users}

\* User.objects.get(username=value), else User.objects.get(email=value.lower())
AccountsFor(value) ==
  IF \E a \in accounts : a.username = value
    THEN {a \in accounts : a.username = value}
    ELSE {a \in accounts : a.email = value}

\* the response, with the result of validate_otp kept for reference: None
\* when the request did not call it
AuthResponse(op, status, otp) == [op |-> op, status |-> status, otp |-> otp]

\* validate_otp as a function of the table: the table it leaves and its result
OtpValidation(email, p, submitted) ==
  LET e    == NormalizeEmail(email)
      code == NormalizeCode(submitted)
      i    == LatestOtp(otps, e, p)
  IN  IF e = "" \/ code = "" \/ i = 0
        THEN [otps |-> otps, email |-> e, purpose |-> p, valid |-> FALSE,
              error_code |-> "invalid_code"]
        ELSE LET r == ValidateRecord(otps[i], code, now)
             IN  [otps |-> [otps EXCEPT ![i] = r.otp], email |-> e, purpose |-> p,
                  valid |-> r.valid, error_code |-> r.error_code]

\* SignupAPIView.post, called without a visitor_id: the serializer refuses a
\* username or an e-mail address that is taken; the account, a fresh
\* visitor profile and the security question are created
Signup(f, email, ip) ==
  LET e == NormalizeEmail(email)
      v == "u_" \o f.username
  IN  /\ IF \E a \in accounts : a.username = f.username \/ a.email = e
           THEN /\ last' = AuthResponse("signup", 400, None)
                /\ UNCHANGED <<profiles, accounts>>
           ELSE /\ profiles' = EnsureProfile(profiles, v, ip, now)
                /\ accounts' = accounts \cup
                     {[username |-> f.username, email |-> e, password |-> f.password,
                       answer |-> Some(NormalizeAnswer(f.answer)), visitor |-> Some(v)]}
                /\ last' = AuthResponse("signup", 201, None)
      /\ UNCHANGED <<now, views, lock, run, otps, lk, gate, likes, images, req>>

\* SignupVerifyCodeAPIView.post, called without a visitor_id.  For a username
\* or an address that is taken either the serializer refuses the request, or
\* User.objects.create raises on the unique columns after validate_otp has
\* run and the handler answers 500
SignupVerifyCode(f, email, submitted, ip) ==
  LET e   == NormalizeEmail(email)
      v   == "u_" \o f.username
      res == OtpValidation(email, "signup", submitted)
      otp == Some([email |-> res.email, purpose |-> res.purpose, valid |-> res.valid])
      taken == \E a \in accounts : a.username = f.username \/ a.email = e
  IN  /\ \/ /\ taken
            /\ last' = AuthResponse("signupVerify", 400, None)
            /\ UNCHANGED <<profiles, otps, accounts>>
         \/ /\ otps' = res.otps
            /\ IF ~res.valid
                 THEN /\ last' = AuthResponse("signupVerify",
                                   IF res.error_code = "too_many_attempts" THEN 429 ELSE 400, otp)
                      /\ UNCHANGED <<profiles, accounts>>
                 ELSE IF taken
                 THEN /\ last' = AuthResponse("signupVerify", 500, otp)
                      /\ UNCHANGED <<profiles, accounts>>
                 ELSE /\ profiles' = EnsureProfile(profiles, v, ip, now)
                      /\ accounts' = accounts \cup
                           {[username |-> f.username, email |-> e, password |-> f.password,
                             answer |-> None, visitor |-> Some(v)]}
                      /\ last' = AuthResponse("signupVerify", 201, otp)
      /\ UNCHANGED <<now, views, lock, run, lk, gate, likes, images, req>>

\* ForgotPasswordStep2APIView.post: the serializer finds the user and the
\* security question, the view checks the answer and sets the password
ForgotPasswordStep2(value, f) ==
  /\ IF \A a \in AccountsFor(value) : IsNone(a.answer)
       THEN /\ last' = AuthResponse("forgotStep2", 400, None)
            /\ accounts' = accounts
       ELSE \E a \in AccountsFor(value) :
              IF a.answer # Some(NormalizeAnswer(f.answer))
                THEN /\ last' = AuthResponse("forgotStep2", 400, None)
                     /\ accounts' = accounts
                ELSE /\ accounts' = (accounts \ {a}) \cup {[a EXCEPT !.password = f.password]}
                     /\ last' = AuthResponse("forgotStep2", 200, None)
  /\ UNCHANGED <<core, lk, gate, likes, images, req>>

\* PasswordResetConfirmAPIView.post: the serializer resolves the identity to
\* a user, validate_otp is called with the user's address
PasswordResetConfirm(value, submitted, f) ==
  /\ IF AccountsFor(value) = {}
       THEN /\ last' = AuthResponse("resetConfirm", 400, None)
            /\ UNCHANGED <<otps, accounts>>
       ELSE \E a \in AccountsFor(value) :
              LET res == OtpValidation(a.email, "password_reset", submitted)
                  otp == Some([email |-> res.email, purpose |-> res.purpose,
                               valid |-> res.valid])
              IN  /\ otps' = res.otps
                  /\ IF ~res.valid
                       THEN /\ last' = AuthResponse("resetConfirm",
                                        IF res.error_code = "too_many_attempts"
                                          THEN 429 ELSE 400, otp)
                            /\ accounts' = accounts
                       ELSE /\ accounts' = (accounts \ {a}) \cup
                                             {[a EXCEPT !.password = f.password]}
                            /\ last' = AuthResponse("resetConfirm", 200, otp)
  /\ UNCHANGED <<now, profiles, views, lock, run, lk, gate, likes, images, req>>

-----------------------------------------------------------------------------
(* The throttles of the auth endpoints: throttles.py.  gate is the cache   *)
(* of the throttle histories: for a key, the request times (newest first)  *)
(* and the time at which the cache drops the entry.  Times are in minutes. *)

Scopes == {"login", "signup", "password_reset"}
Idents == {"ip1"}
Targets == {"", "bob"}
Backends == {"up", "down"}

\* (num_requests, duration): parse_rate of '5/m' as overridden, and of '3/h'
LoginRequests == 5
LoginWindowMinutes == 15
SignupRequests == 3
ForgotPasswordRequests == 3
HourMinutes == 60

num_requests(scope) ==
  CASE scope = "login" -> LoginRequests
    [] scope = "signup" -> SignupRequests
    [] scope = "password_reset" -> ForgotPasswordRequests

duration(scope) == IF scope = "login" THEN LoginWindowMinutes ELSE HourMinutes

\* get_cache_key: the three classes keep the scope 'anon' of AnonRateThrottle;
\* the password-reset one appends the target, when the request names one
get_cache_key(scope, ident, target) ==
  IF scope = "password_reset" /\ target # "" THEN <<"anon", ident, target>>
  ELSE <<"anon", ident>>

CacheKeys == {get_cache_key(sc, i, t) : sc \in Scopes, i \in Idents, t \in Targets}

\* cache.get(key, [])
CacheGet(g, key, t) == IF t < g[key].expires THEN g[key].history ELSE <<>>

\* the history without the requests that have passed the throttle duration
DropOld(h, t, dur) == SelectSeq(h, LAMBDA x : x > t - dur)

\* SimpleRateThrottle.allow_request with the throttle_failure of this
\* repository, which raises Throttled: the outcome and the history written
SuperAllowRequest(scope, g, key, t, backend) ==
  IF backend = "down"
    THEN [outcome |-> "raise", history |-> <<>>, written |-> FALSE]
  ELSE LET history == DropOld(CacheGet(g, key, t), t, duration(scope))
       IN  IF Len(history) >= num_requests(scope)
             THEN [outcome |-> "raise", history |-> history, written |-> FALSE]
             ELSE [outcome |-> "true", history |-> <<t>> \o history, written |-> TRUE]

\* variant: without the try/except, what the parent raises reaches the caller
allow_request_propagates(scope, g, key, t, backend) ==
  SuperAllowRequest(scope, g, key, t, backend)

\* allow_request of the three classes: the parent's answer, and True for
\* every exception raised under it
allow_request(scope, g, key, t, backend) ==
  LET r == SuperAllowRequest(scope, g, key, t, backend)
  IN  IF r.outcome = "raise" THEN [r EXCEPT !.outcome = "true"] ELSE r

\* one request through the throttle of its endpoint
AllowRequest(scope, ident, target, backend) ==
  LET key == get_cache_key(scope, ident, target)
      r   == allow_request(scope, gate, key, now, backend)
  IN  /\ gate' = IF r.written
                   THEN [gate EXCEPT ![key] = [history |-> r.history,
                                               expires |-> now + duration(scope)]]
                   ELSE gate
      /\ last' = [op |-> "gate", scope |-> scope, key |-> key, backend |-> backend,
                  outcome |-> r.outcome, counted |-> Len(r.history)]
      /\ UNCHANGED <<core, lk, likes, images, req, accounts>>

-----------------------------------------------------------------------------
(* Likes: one row per (visitor, product), switched on and off by one       *)
(* endpoint.                                                               *)

\* the pairs a toggle is called for
LikePairs == Visitors \X Products

\* like_exists: a row of this visitor for this product is stored
LikeExists(ls, v, p) == <<v, p>> \in ls

\* variant: the count runs over the rows of every product
LikeCountAllProducts(ls, p) == Cardinality(ls)

\* like_count: the rows stored for the product
LikeCount(ls, p) == Cardinality({row \in ls : row[2] = p})

\* the response, with two observations of the table before the call kept
\* for reference: whether the row was stored and the product's count
LikeResponse(v, p, liked, count, had, count_before) ==
  [op |-> "toggleLike", visitor |-> v, product_id |-> p, liked |-> liked,
   like_count |-> count, had |-> had, count_before |-> count_before]

ToggleLike(v, p, ip) ==
  LET exists == LikeExists(likes, v, p)
      ls1    == IF exists THEN likes \ {<<v, p>>} ELSE likes \cup {<<v, p>>}
  IN  /\ profiles' = EnsureProfile(profiles, v, ip, now)
      /\ likes' = ls1
      /\ last' = LikeResponse(v, p, ~exists, LikeCount(ls1, p),
                              <<v, p>> \in likes,
                              Cardinality({row \in likes : row[2] = p}))
      /\ UNCHANGED <<now, views, lock, run, otps, lk, gate, images, req, accounts>>

\* The handler as two steps of a request r: lines 715-726 read like_exists,
\* lines 728-750 delete or create.  The table is a set of pairs because of
\* unique_together: create() of a pair that is stored raises IntegrityError,
\* which the handler does not catch.
ToggleRead(r, v, p, ip) ==
  /\ req[r].pc = "idle"
  /\ profiles' = EnsureProfile(profiles, v, ip, now)
  /\ req' = [req EXCEPT ![r] = [pc |-> "toggle", op |-> "toggleLike", visitor |-> v,
                                 product |-> p, like_exists |-> LikeExists(likes, v, p)]]
  /\ last' = [op |-> "toggleLike", request |-> r, status |-> "running"]
  /\ UNCHANGED <<now, views, lock, run, otps, lk, gate, likes, images, accounts>>

\* the response of a racing toggle, with what the request did to the table
RaceLikeResponse(r, status, liked, count, created, deleted) ==
  [op |-> "toggleLike", request |-> r, status |-> status, liked |-> liked,
   like_count |-> count, created |-> created, deleted |-> deleted]

ToggleWrite(r) ==
  LET q    == req[r]
      pair == <<q.visitor, q.product>>
  IN  /\ q.pc = "toggle"
      /\ IF q.like_exists
           THEN /\ likes' = likes \ {pair}
                /\ last' = RaceLikeResponse(r, "200", FALSE, LikeCount(likes \ {pair}, q.product),
                                            FALSE, pair \in likes)
           ELSE IF pair \in likes
           THEN /\ likes' = likes
                /\ last' = RaceLikeResponse(r, "500", FALSE, 0, FALSE, FALSE)
           ELSE /\ likes' = likes \cup {pair}
                /\ last' = RaceLikeResponse(r, "200", TRUE, LikeCount(likes \cup {pair}, q.product),
                                            TRUE, FALSE)
      /\ req' = [req EXCEPT ![r] = IdleReq]
      /\ UNCHANGED <<now, profiles, views, lock, run, otps, lk, gate, images, accounts>>

-----------------------------------------------------------------------------
(* Ranking: PopularProductsAPIView.get and AlsoViewedProductsAPIView.get,  *)
(* two read-only queries over the ProductView rows.  Times are minutes.    *)

RankProducts == {"p1", "p2", "p3"}

\* the place names of the ranked rows, in the order the database sorts them
PlaceNames == <<"C1", "C2", "C3", "K1", "K2">>
NameIndex(n) == CHOOSE i \in DOMAIN PlaceNames : PlaceNames[i] = n

\* the position of a nullable name in an ascending sort: the backend puts
\* NULL first (SQLite) or last (PostgreSQL)
NameKey(o, nulls_first) ==
  IF IsNone(o) THEN (IF nulls_first THEN 0 ELSE Len(PlaceNames) + 1)
  ELSE NameIndex(Val(o))

DayMinutes == 1440
popular_default_limit == 10
popular_max_limit == 50
also_viewed_default_limit == 10
also_viewed_max_limit == 10
default_period_days == 90

MinOf(a, b) == IF a < b THEN a ELSE b
MaxOf(a, b) == IF a > b THEN a ELSE b

\* limit = max(1, min(cap, int(limit))) when the parameter is given
ParseLimit(limit, default, cap) ==
  IF IsNone(limit) THEN default ELSE MaxOf(1, MinOf(cap, Val(limit)))

PopularPeriods == {"24h", "7d", "30d"}
AlsoViewedPeriods == {"30d", "90d"}

PopularSince(period, t) ==
  IF period = "24h" THEN t - DayMinutes
  ELSE IF period = "30d" THEN t - 30 * DayMinutes
  ELSE t - 7 * DayMinutes

AlsoViewedSince(period, t) ==
  IF period = "30d" THEN t - 30 * DayMinutes
  ELSE t - default_period_days * DayMinutes

\* filter(viewed_at__gte = since)
InWindow(vs, since) == {i \in DOMAIN vs : vs[i].viewed_at >= since}

\* the requesting visitor's (country, city); (NULL, NULL) without a visitor_id
\* or for an unknown one
VisitorPlace(ps, visitor_id) ==
  IF ~IsNone(visitor_id) /\ Val(visitor_id) \in DOMAIN ps
    THEN <<ps[Val(visitor_id)].country, ps[Val(visitor_id)].city>>
    ELSE <<None, None>>

\* the Case expression; a None on the right of a lookup compares as IS NULL
LocationPriority(country, city, place) ==
  IF country = place[1] /\ city = place[2] THEN 2
  ELSE IF country = place[1] THEN 1
  ELSE 0

\* GROUP BY: the product of values(), the columns of the Case expression and
\* the columns named in order_by() that are not annotations
PopularGroupKeys(vs, rows) ==
  {<<vs[i].product, vs[i].country, vs[i].city>> : i \in rows}

GreatestViewedAt(vs, rows) ==
  CHOOSE t \in {vs[i].viewed_at : i \in rows} : \A i \in rows : vs[i].viewed_at <= t

\* one row of the aggregate
PopularGroup(vs, rows, k, place) ==
  LET members == {i \in rows : <<vs[i].product, vs[i].country, vs[i].city>> = k}
  IN  [product |-> k[1], country |-> k[2], city |-> k[3],
       view_count |-> Cardinality(members),
       last_viewed_at |-> GreatestViewedAt(vs, members),
       location_priority |-> LocationPriority(k[2], k[3], place)]

\* order_by("-location_priority", "-view_count", "-last_viewed_at",
\*          "country", "city")
PopularBefore(g, h, nulls_first) ==
  \/ g.location_priority > h.location_priority
  \/ /\ g.location_priority = h.location_priority
     /\ \/ g.view_count > h.view_count
        \/ /\ g.view_count = h.view_count
           /\ \/ g.last_viewed_at > h.last_viewed_at
              \/ /\ g.last_viewed_at = h.last_viewed_at
                 /\ \/ NameKey(g.country, nulls_first) < NameKey(h.country, nulls_first)
                    \/ /\ g.country = h.country
                       /\ NameKey(g.city, nulls_first) < NameKey(h.city, nulls_first)

\* the orders the database may return the aggregate in: rows the ORDER BY
\* does not separate come in any order
RECURSIVE PopularOrders(_, _)
PopularOrders(groups, nulls_first) ==
  IF groups = {} THEN {<<>>}
  ELSE UNION {{<<g>> \o rest : rest \in PopularOrders(groups \ {g}, nulls_first)} :
              g \in {x \in groups : \A y \in groups : ~PopularBefore(y, x, nulls_first)}}

\* [:limit]
Take(seq, n) == SubSeq(seq, 1, MinOf(n, Len(seq)))

\* product_ids, and ordered_products built from it
ProductIds(seq) == [i \in DOMAIN seq |-> seq[i].product]

Popular(visitor_id, period, limit) ==
  LET since  == PopularSince(period, now)
      rows   == InWindow(views, since)
      place  == VisitorPlace(profiles, visitor_id)
      groups == {PopularGroup(views, rows, k, place) : k \in PopularGroupKeys(views, rows)}
      n      == ParseLimit(limit, popular_default_limit, popular_max_limit)
  IN  /\ \E nulls_first \in BOOLEAN :
           \E seq \in PopularOrders(groups, nulls_first) :
             last' = [op |-> "popular", visitor_id |-> visitor_id, period |-> period,
                      results |-> ProductIds(Take(seq, n))]
      /\ UNCHANGED <<core, aux>>

-----------------------------------------------------------------------------
(* Recently viewed products: RecentProductsAPIView.get *)

recent_default_limit == 10
recent_max_limit == 50

\* the products whose discount_price is set
DiscountedProducts == {"p2"}

\* variant: the rows of every visitor
RecentRowsAnyVisitor(vs, v) == DOMAIN vs

\* filter(visitor=visitor)
RecentRows(vs, v) == {i \in DOMAIN vs : vs[i].visitor = v}

\* filter(visitor=visitor).order_by("-viewed_at"): rows of equal viewed_at
\* come in any order
RECURSIVE RecentOrders(_, _)
RecentOrders(vs, rows) ==
  IF rows = {} THEN {<<>>}
  ELSE UNION {{<<i>> \o rest : rest \in RecentOrders(vs, rows \ {i})} :
              i \in {x \in rows : \A y \in rows : vs[y].viewed_at <= vs[x].viewed_at}}

\* the loop over views_qs: skip a product already seen, stop at limit
RECURSIVE RecentLoop(_, _, _, _)
RecentLoop(vs, order, products, limit) ==
  IF order = <<>> THEN products
  ELSE LET pid == vs[Head(order)].product
       IN  IF \E k \in DOMAIN products : products[k] = pid
             THEN RecentLoop(vs, Tail(order), products, limit)
           ELSE IF Len(products) + 1 >= limit THEN Append(products, pid)
           ELSE RecentLoop(vs, Tail(order), Append(products, pid), limit)

\* products = [p for p in products if p.discount_price]
RECURSIVE WholesaleOnly(_)
WholesaleOnly(products) ==
  IF products = <<>> THEN <<>>
  ELSE IF Head(products) \in DiscountedProducts
         THEN <<Head(products)>> \o WholesaleOnly(Tail(products))
       ELSE WholesaleOnly(Tail(products))

RecentResponse(visitor_id, limit, wholesale_only, results) ==
  [op |-> "recent", visitor_id |-> visitor_id, limit |-> limit,
   wholesale_only |-> wholesale_only, results |-> results]

Recent(visitor_id, limit, wholesale_only) ==
  /\ IF IsNone(visitor_id) \/ Val(visitor_id) \notin DOMAIN profiles
       THEN last' = RecentResponse(visitor_id, limit, wholesale_only, <<>>)
       ELSE \E order \in RecentOrders(views, RecentRows(views, Val(visitor_id))) :
              LET n        == ParseLimit(limit, recent_default_limit, recent_max_limit)
                  products == RecentLoop(views, order, <<>>, n)
              IN  last' = RecentResponse(visitor_id, limit, wholesale_only,
                                         IF wholesale_only THEN WholesaleOnly(products)
                                         ELSE products)
  /\ UNCHANGED <<core, aux>>

\* variant: the requesting visitor's own views are not looked at
ViewedProductsIgnored(vs, ps, visitor_id) == None

\* current_visitor_viewed_products: the products of every row stored for the
\* requesting visitor, or None without a visitor_id or for an unknown one
ViewedProducts(vs, ps, visitor_id) ==
  IF ~IsNone(visitor_id) /\ Val(visitor_id) \in DOMAIN ps
    THEN Some({vs[i].product : i \in {j \in DOMAIN vs : vs[j].visitor = Val(visitor_id)}})
    ELSE None

\* visitors_who_viewed
VisitorsWhoViewed(vs, product_id, since) ==
  {vs[i].visitor : i \in {j \in InWindow(vs, since) : vs[j].product = product_id}}

\* the rows the aggregate runs over: in-window rows of those visitors, without
\* the current product and without the products the requesting visitor viewed
AlsoViewedRows(vs, product_id, since, excluded) ==
  {i \in InWindow(vs, since) :
     /\ vs[i].visitor \in VisitorsWhoViewed(vs, product_id, since)
     /\ vs[i].product # product_id
     /\ (IsNone(excluded) \/ vs[i].product \notin Val(excluded))}

\* values("product").annotate(view_count, last_viewed)
AlsoViewedGroup(vs, rows, p) ==
  LET members == {i \in rows : vs[i].product = p}
  IN  [product |-> p, view_count |-> Cardinality(members),
       last_viewed |-> GreatestViewedAt(vs, members)]

\* variant: the aggregate ordered by recency alone
AlsoViewedBeforeByRecency(g, h) == g.last_viewed > h.last_viewed

\* order_by("-view_count", "-last_viewed")
AlsoViewedBefore(g, h) ==
  \/ g.view_count > h.view_count
  \/ g.view_count = h.view_count /\ g.last_viewed > h.last_viewed

RECURSIVE AlsoViewedOrders(_)
AlsoViewedOrders(groups) ==
  IF groups = {} THEN {<<>>}
  ELSE UNION {{<<g>> \o rest : rest \in AlsoViewedOrders(groups \ {g})} :
              g \in {x \in groups : \A y \in groups : ~AlsoViewedBefore(y, x)}}

\* the response of also-viewed, with the request it answers
AlsoViewedResponse(product_id, visitor_id, period, limit, status, results) ==
  [op |-> "alsoViewed", product_id |-> product_id, visitor_id |-> visitor_id,
   period |-> period, limit |-> limit, status |-> status, results |-> results]

AlsoViewed(product_id, visitor_id, period, limit) ==
  LET since    == AlsoViewedSince(period, now)
      excluded == ViewedProducts(views, profiles, visitor_id)
      rows     == AlsoViewedRows(views, product_id, since, excluded)
      groups   == {AlsoViewedGroup(views, rows, views[i].product) : i \in rows}
      n        == ParseLimit(limit, also_viewed_default_limit, also_viewed_max_limit)
  IN  /\ IF product_id \notin RankProducts
           THEN last' = AlsoViewedResponse(product_id, visitor_id, period, limit, 404, <<>>)
           ELSE \E seq \in AlsoViewedOrders(groups) :
                  last' = AlsoViewedResponse(product_id, visitor_id, period, limit, 200,
                                             ProductIds(Take(seq, n)))
      /\ UNCHANGED <<core, aux>>

-----------------------------------------------------------------------------
(* ProductImage: clean, save and the post_save and pre_delete receivers.   *)
(* A row is [id, product, is_main, created_at].                            *)

ImageIds == {"i1", "i2", "i3"}

ImagesOf(imgs, p) == {r \in imgs : r.product = p}
MainImagesOf(imgs, p) == {r \in ImagesOf(imgs, p) : r.is_main}

\* clean(): an instance that is not main is refused when no other image of
\* its product is main (pk has a default, so new instances are checked too)
CleanRejects(imgs, inst) ==
  /\ ~inst.is_main
  /\ {r \in MainImagesOf(imgs, inst.product) : r.id # inst.id} = {}

\* ordering = ['-is_main', 'created_at']: the rows .first() may return
FirstImages(rows) ==
  {r \in rows : \A s \in rows :
     \/ (r.is_main /\ ~s.is_main)
     \/ (r.is_main = s.is_main /\ r.created_at <= s.created_at)}

\* filter(product, is_main=True).exclude(pk).update(is_main=False)
UnsetOtherMains(imgs, p, id) ==
  {IF r.product = p /\ r.is_main /\ r.id # id THEN [r EXCEPT !.is_main = FALSE] ELSE r :
     r \in imgs}

\* first_image.is_main = True; first_image.save(update_fields=['is_main']),
\* with the post_save it sends for first_image
Promote(imgs, first) ==
  UnsetOtherMains({IF r.id = first.id THEN [r EXCEPT !.is_main = TRUE] ELSE r : r \in imgs},
                  first.product, first.id)

\* ensure_main_image_after_save: the tables it can leave
PostSave(imgs, inst) ==
  LET imgs1 == IF inst.is_main THEN UnsetOtherMains(imgs, inst.product, inst.id) ELSE imgs
  IN  IF MainImagesOf(imgs1, inst.product) # {} \/ ImagesOf(imgs1, inst.product) = {}
        THEN {imgs1}
        ELSE {Promote(imgs1, first) : first \in FirstImages(ImagesOf(imgs1, inst.product))}

\* ensure_main_image_on_delete: the tables it can leave before the row goes
PreDelete(imgs, inst) ==
  LET others == {r \in ImagesOf(imgs, inst.product) : r.id # inst.id}
  IN  IF inst.is_main /\ others # {}
        THEN {Promote(imgs, first) : first \in FirstImages(others)}
        ELSE {imgs}

ImageResponse(op, id, p, m, outcome) ==
  [op |-> op, id |-> id, product |-> p, is_main |-> m, outcome |-> outcome]

\* ProductImage.objects.create(product, image, is_main)
CreateImage(id, p, m) ==
  LET inst == [id |-> id, product |-> p, is_main |-> m, created_at |-> now]
  IN  /\ id \notin {r.id : r \in images}
      /\ IF CleanRejects(images, inst)
           THEN /\ images' = images
                /\ last' = ImageResponse("createImage", id, p, m, "ValidationError")
           ELSE /\ images' \in PostSave(images \cup {inst}, inst)
                /\ last' = ImageResponse("createImage", id, p, m, "saved")
      /\ UNCHANGED <<core, lk, gate, likes, req, accounts>>

\* save() of a stored image with the fields of the instance set to p and m
SaveImage(id, p, m) ==
  \E row \in images :
    /\ row.id = id
    /\ LET inst == [row EXCEPT !.product = p, !.is_main = m]
       IN  IF CleanRejects(images, inst)
             THEN /\ images' = images
                  /\ last' = ImageResponse("saveImage", id, p, m, "ValidationError")
             ELSE /\ images' \in PostSave((images \ {row}) \cup {inst}, inst)
                  /\ last' = ImageResponse("saveImage", id, p, m, "saved")
    /\ UNCHANGED <<core, lk, gate, likes, req, accounts>>

\* delete() of a stored image, loaded from the table
DeleteImage(id) ==
  \E row \in images :
    /\ row.id = id
    /\ \E imgs1 \in PreDelete(images, row) :
         images' = {r \in imgs1 : r.id # id}
    /\ last' = ImageResponse("deleteImage", id, row.product, row.is_main, "deleted")
    /\ UNCHANGED <<core, lk, gate, likes, req, accounts>>

-----------------------------------------------------------------------------
(* The clock *)

Tick(step, max) ==
  /\ now + step <= max
  /\ now' = now + step
  /\ lock' = CacheAt(lock, now')
  /\ last' = [op |-> "tick"]
  /\ UNCHANGED <<profiles, views, run, otps, aux>>

-----------------------------------------------------------------------------
(* Specifications *)

InitCommon ==
  /\ now = 0
  /\ lock = None
  /\ run = [w \in Workers |-> IdleRun]
  /\ otps = <<>>
  /\ last = [op |-> "init"]
  /\ lk = IdleLookup
  /\ gate = [k \in CacheKeys |-> [history |-> <<>>, expires |-> 0]]
  /\ likes = {}
  /\ images = {}
  /\ req = [r \in Requests |-> IdleReq]
  /\ accounts = SeedAccounts

\* a table left by earlier requests: rows and profiles with coordinates
Seed1Profiles == ProfilesAfterView(<<>>, "v1", "ip1", Some(1), Some(1), 0)
Seed1Views == <<NewView("v1", "p1", Seed1Profiles["v1"], Some(1), Some(1), 0)>>
Seed2Profiles == ProfilesAfterView(Seed1Profiles, "v2", "ip1", Some(2), Some(1), 0)
Seed2Views == Append(Seed1Views, NewView("v2", "p1", Seed2Profiles["v2"], Some(2), Some(1), 0))

\* the first of them after a backfill run that got both names for (1, 1)
PlacedProfiles ==
  [v \in DOMAIN Seed1Profiles |->
     ApplyUpdate(Seed1Profiles[v], GeoCountry(Some(1), Some(1)), GeoCity(Some(1), Some(1)))]
PlacedViews ==
  [i \in DOMAIN Seed1Views |->
     ApplyUpdate(Seed1Views[i], GeoCountry(Some(1), Some(1)), GeoCity(Some(1), Some(1)))]

\* tracking requests, one at a time, on an empty table or on one whose rows
\* a backfill run has given place names
InitTrack ==
  /\ InitCommon
  /\ \E seed \in {<<<<>>, <<>>>>, <<PlacedProfiles, PlacedViews>>} :
       /\ profiles = seed[1]
       /\ views = seed[2]

NextTrack ==
  \/ \E vp \in ViewPairs, ip \in IPs, c \in CoordInputs :
       RecordView(vp[1], vp[2], ip, c[1], c[2])
  \/ Tick(ScheduleInterval, MaxViewTime)

SpecTrack == InitTrack /\ [][NextTrack]_vars

\* the pairs and coordinates of the requests that run side by side
RacePairs == {<<"v1", "p1">>, <<"v2", "p1">>}
RaceCoords == {<<None, None>>, <<Some(1), Some(1)>>}

\* tracking requests of which two may be in flight, on the tables of SpecTrack
NextTrackRace ==
  \/ \E r \in Requests, vp \in RacePairs, ip \in IPs, c \in RaceCoords :
       RecordViewRead(r, vp[1], vp[2], ip, c[1], c[2])
  \/ \E r \in Requests : RecordViewWrite(r)
  \/ Tick(ScheduleInterval, MaxViewTime)

SpecTrackRace == InitTrack /\ [][NextTrackRace]_vars

\* what a lookup gives back in the runs of two workers: both names, nothing,
\* or an exception
ConcurrentOutcomes == {"both", "none", "raise"}

\* backfill invocations on two workers over a table left by earlier requests
InitBackfill ==
  /\ InitCommon
  /\ \E seed \in {<<<<>>, <<>>>>, <<Seed1Profiles, Seed1Views>>,
                   <<Seed2Profiles, Seed2Views>>} :
       /\ profiles = seed[1]
       /\ views = seed[2]

NextBackfill ==
  \/ \E w \in Workers :
       \/ BackfillAcquire(w)
       \/ BackfillSkipped(w)
       \/ BackfillNothingToFix(w)
       \/ BackfillSelect(w)
       \/ BackfillList(w)
       \/ BackfillLookup(w, ConcurrentOutcomes)
       \/ BackfillUpdateViews(w)
       \/ BackfillUpdateVisitors(w)
       \/ BackfillUpdateRaises(w)
       \/ BackfillRelease(w)
       \/ BackfillError(w)
  \/ Tick(ScheduleInterval, MaxTime)

SpecBackfill == InitBackfill /\ [][NextBackfill]_vars

\* backfill invocations one after the other on one worker, with every outcome
\* of a lookup; each of them finds the lock free, the one before has deleted it
NextBackfillSolo ==
  \/ \E w \in {"w1"} :
       \/ BackfillAcquire(w)
       \/ BackfillNothingToFix(w)
       \/ BackfillSelect(w)
       \/ BackfillList(w)
       \/ BackfillLookup(w, LookupOutcomes)
       \/ BackfillUpdateViews(w)
       \/ BackfillUpdateVisitors(w)
       \/ BackfillUpdateRaises(w)
       \/ BackfillRelease(w)
       \/ BackfillError(w)
  \/ Tick(ScheduleInterval, MaxTime)

SpecBackfillSolo == InitBackfill /\ [][NextBackfillSolo]_vars

\* the pair and the coordinates of the tracking requests that run beside a
\* backfill run
MovePairs == {<<"v1", "p1">>}
MoveCoords == {<<None, None>>, <<Some(2), Some(1)>>}

\* one backfill run at a time beside tracking requests, one request at a
\* time, each in its two steps
NextTrackBackfill ==
  \/ \E w \in {"w1"} :
       \/ BackfillAcquire(w)
       \/ BackfillNothingToFix(w)
       \/ BackfillSelect(w)
       \/ BackfillList(w)
       \/ BackfillLookup(w, ConcurrentOutcomes)
       \/ BackfillUpdateViews(w)
       \/ BackfillUpdateVisitors(w)
       \/ BackfillUpdateRaises(w)
       \/ BackfillRelease(w)
       \/ BackfillError(w)
  \/ \E vp \in MovePairs, ip \in IPs, c \in MoveCoords :
       RecordViewRead("r1", vp[1], vp[2], ip, c[1], c[2])
  \/ RecordViewWrite("r1")
  \/ Tick(ScheduleInterval, MaxViewTime)

SpecTrackBackfill == InitBackfill /\ [][NextTrackBackfill]_vars

\* lookups, one at a time, against a service that answers anything
InitLookup ==
  /\ InitCommon
  /\ profiles = <<>>
  /\ views = <<>>

NextLookup ==
  \/ \E kind \in LookupKinds : LookupStart(kind)
  \/ LookupCheck
  \/ \E resp \in Responses, dur \in Durations : LookupRequest(resp, dur)

SpecLookup == InitLookup /\ [][NextLookup]_vars

\* requests to the auth endpoints, one at a time
InitGate ==
  /\ InitCommon
  /\ profiles = <<>>
  /\ views = <<>>

NextGate ==
  \/ \E sc \in Scopes, i \in Idents, t \in Targets, b \in Backends : AllowRequest(sc, i, t, b)
  \/ Tick(LoginWindowMinutes, MaxGateTime)

SpecGate == InitGate /\ [][NextGate]_vars

\* like toggles of two visitors on two products, one request at a time
InitLike ==
  /\ InitCommon
  /\ profiles = <<>>
  /\ views = <<>>

NextLike ==
  \/ \E pr \in LikePairs, ip \in IPs : ToggleLike(pr[1], pr[2], ip)
  \/ Tick(ScheduleInterval, MaxViewTime)

SpecLike == InitLike /\ [][NextLike]_vars

\* toggle requests of which two may be in flight
NextLikeRace ==
  \/ \E r \in Requests, pr \in LikePairs, ip \in IPs : ToggleRead(r, pr[1], pr[2], ip)
  \/ \E r \in Requests : ToggleWrite(r)
  \/ Tick(ScheduleInterval, MaxViewTime)

SpecLikeRace == InitLike /\ [][NextLikeRace]_vars

\* the rows the ranked tables are made of: visitor, product, country, city
\* and viewed_at, in minutes before the request
RankPool ==
  << <<"v1", "p1", Some("K1"), Some("C1"), -1>>,
     <<"v1", "p2", Some("K1"), Some("C1"), -5000>>,
     <<"v2", "p1", Some("K1"), Some("C2"), -5000>>,
     <<"v2", "p1", Some("K2"), Some("C3"), -5000>>,
     <<"v2", "p2", Some("K1"), Some("C2"), -1>>,
     <<"v2", "p3", Some("K2"), Some("C3"), -5000>>,
     <<"v2", "p3", Some("K2"), Some("C3"), -50000>>,
     <<"v1", "p3", None, None, -5000>> >>

RankRow(r) ==
  [visitor |-> r[1], product |-> r[2], viewed_at |-> r[5],
   country |-> r[3], city |-> r[4], latitude |-> None, longitude |-> None]

\* the table holding the rows of the pool picked by S, in the pool's order
RankTable(S) ==
  LET n == Cardinality(S)
      f == CHOOSE g \in [1..n -> S] : \A i, j \in 1..n : i < j => g[i] < g[j]
  IN  [i \in 1..n |-> RankRow(RankPool[f[i]])]

\* v1 has a country and a city, v2 has a profile without them
RankProfiles ==
  [v \in Visitors |->
     [NewProfile("ip1", 0) EXCEPT
        !.country = IF v = "v1" THEN Some("K1") ELSE None,
        !.city    = IF v = "v1" THEN Some("C1") ELSE None]]

\* who asks: nobody, a visitor with a place, one without, an unknown one
RankVisitors == {None, Some("v1"), Some("v2"), Some("v9")}
RankLimits == {None, Some(0)}

\* the two ranking queries over a table of up to MaxRankRows rows
InitRank ==
  /\ InitCommon
  /\ profiles = RankProfiles
  /\ \E S \in SUBSET DOMAIN RankPool :
       /\ Cardinality(S) <= MaxRankRows
       /\ views = RankTable(S)

NextRank ==
  \/ \E v \in RankVisitors, per \in PopularPeriods, l \in RankLimits : Popular(v, per, l)
  \/ \E p \in {"p1", "p2", "p9"}, v \in RankVisitors, per \in AlsoViewedPeriods,
        l \in RankLimits : AlsoViewed(p, v, per, l)

SpecRank == InitRank /\ [][NextRank]_vars

\* who asks for recent products: nobody, either stored visitor, an unknown one
RecentVisitors == {None, Some("v1"), Some("v2"), Some("v9")}
RecentLimits == {None, Some(0), Some(2), Some(60)}

\* the recent-products query over a table of up to MaxRankRows rows
NextRecent ==
  \E v \in RecentVisitors, l \in RecentLimits, w \in BOOLEAN : Recent(v, l, w)

SpecRecent == InitRank /\ [][NextRecent]_vars

\* creations, saves and deletions of the images of two products
InitImage ==
  /\ InitCommon
  /\ profiles = <<>>
  /\ views = <<>>

NextImage ==
  \/ \E id \in ImageIds, p \in Products, m \in BOOLEAN : CreateImage(id, p, m)
  \/ \E id \in ImageIds, p \in Products, m \in BOOLEAN : SaveImage(id, p, m)
  \/ \E id \in ImageIds : DeleteImage(id)
  \/ Tick(ScheduleInterval, MaxViewTime)

SpecImage == InitImage /\ [][NextImage]_vars

\* requests for a password-reset code, for an account and for none
InitReset ==
  /\ InitCommon
  /\ profiles = <<>>
  /\ views = <<>>

NextReset ==
  \/ \E value \in ResetInputs, c \in Codes, d \in Deliveries :
       PasswordResetRequestCode(value, c, d)
  \/ Tick(ScheduleInterval, MaxOtpTime)

SpecReset == InitReset /\ [][NextReset]_vars

\* calls of ensure for two visitors from two addresses
InitEnsure ==
  /\ InitCommon
  /\ profiles = <<>>
  /\ views = <<>>

NextEnsure ==
  \/ \E v \in Visitors, ip \in EnsureIPs, g \in GeoServices : Ensure(v, ip, g)
  \/ Tick(ScheduleInterval, MaxViewTime)

SpecEnsure == InitEnsure /\ [][NextEnsure]_vars

\* OTP requests, one at a time
InitOtp ==
  /\ InitCommon
  /\ profiles = <<>>
  /\ views = <<>>

NextOtp ==
  \/ \E e \in RawEmails, p \in Purposes, c \in Codes : CreateOrRefreshOtp(e, p, c)
  \/ \E e \in RawEmails, p \in Purposes, c \in SubmittedCodes : ValidateOtp(e, p, c)
  \/ Tick(ttl_minutes, MaxOtpTime)

SpecOtp == InitOtp /\ [][NextOtp]_vars

\* the code drawn and the submissions made while requests run side by side
RaceCodes == {"0000"}
RaceSubmissions == {"0000", " 0001 "}

\* issue and validate requests of which two may be in flight
NextOtpRace ==
  \/ \E r \in Requests, e \in RawEmails, p \in Purposes : IssueInvalidate(r, e, p)
  \/ \E r \in Requests, c \in RaceCodes : IssueCreate(r, c)
  \/ \E r \in Requests, e \in RawEmails, p \in Purposes, c \in RaceSubmissions :
       ValidateRead(r, e, p, c)
  \/ \E r \in Requests : ValidateWrite(r)
  \/ Tick(ttl_minutes, MaxOtpTime)

SpecOtpRace == InitOtp /\ [][NextOtpRace]_vars

\* the requests that issue and consume codes and that write the User table
InitAuth ==
  /\ InitCommon
  /\ profiles = <<>>
  /\ views = <<>>

NextAuth ==
  \/ /\ Len(otps) < MaxAuthOtps
     /\ \E e \in RawEmails, c \in RaceCodes : CreateOrRefreshOtp(e, "signup", c)
  \/ /\ Len(otps) < MaxAuthOtps
     /\ \E value \in ResetInputs, c \in RaceCodes, d \in Deliveries :
          PasswordResetRequestCode(value, c, d)
  \/ \E f \in AuthInputs, e \in RawEmails, ip \in IPs : Signup(f, e, ip)
  \/ \E f \in AuthInputs, e \in RawEmails, c \in RaceSubmissions, ip \in IPs :
       SignupVerifyCode(f, e, c, ip)
  \/ \E value \in ResetInputs, f \in AuthInputs : ForgotPasswordStep2(value, f)
  \/ \E value \in ResetInputs, c \in RaceSubmissions, f \in AuthInputs :
       PasswordResetConfirm(value, c, f)
  \/ Tick(ttl_minutes, MaxOtpTime)

SpecAuth == InitAuth /\ [][NextAuth]_vars

-----------------------------------------------------------------------------
(* Properties *)

\* the rows and records a property speaks of, found without the handlers' queries
PairRows(vs, v, p) == {i \in 1..Len(vs) : vs[i].visitor = v /\ vs[i].product = p}
PairOtps(os, e, p) == {i \in 1..Len(os) : os[i].email = e /\ os[i].purpose = p}
NewestOtp(os, e, p) == {i \in PairOtps(os, e, p) : \A j \in PairOtps(os, e, p) : j <= i}
Active(o, t) == ~o.used /\ ~(t > o.expires_at) /\ ~(o.attempt_count >= o.max_attempts)

C3_LocationInvalidation ==
  [][\A vp \in ViewPairs, ip \in IPs, c \in CoordInputs :
       RecordView(vp[1], vp[2], ip, c[1], c[2]) =>
         \A i \in PairRows(views, vp[1], vp[2]) :
           ((~IsNone(c[1]) /\ views[i].latitude # c[1]) \/ (~IsNone(c[2]) /\ views[i].longitude # c[2]))
             => /\ IsNone(views'[i].country)
                /\ IsNone(views'[i].city)
                /\ (~IsNone(c[1]) => views'[i].latitude = c[1])
                /\ (~IsNone(c[2]) => views'[i].longitude = c[2])]_vars

\* a row that carried a place name was hit with other coordinates
C3_Witness ==
  /\ last.op = "recordView"
  /\ last.duplicate
  /\ last.location_changed
  /\ last.had_place
  /\ \E i \in 1..Len(views) : IsNone(views[i].country) /\ IsNone(views[i].city)

\* C4: an OTP is single-use: validate succeeds only on a record that was not
\* yet used, so after a success no later validate of the same code succeeds
\* while no new code is issued.
C4_SingleUse ==
  [][\A e \in RawEmails, p \in Purposes, c \in SubmittedCodes :
       (ValidateOtp(e, p, c) /\ last'.valid) =>
         \A i \in NewestOtp(otps, NormalizeEmail(e), p) : ~otps[i].used]_vars

\* C5 as stated: when the latest code of the pair has attempt_count >=
\* max_attempts, validate answers too_many_attempts and changes no field.
C5_LockedAlwaysTooMany ==
  [][\A e \in RawEmails, p \in Purposes, c \in SubmittedCodes :
       ValidateOtp(e, p, c) =>
         \A i \in NewestOtp(otps, NormalizeEmail(e), p) :
           otps[i].attempt_count >= otps[i].max_attempts
             => /\ last'.error_code = "too_many_attempts"
                /\ otps' = otps]_vars

\* C5 amended: when the latest code of the pair is not expired and has
\* attempt_count >= max_attempts, validate with any non-blank submission,
\* the right code included, answers too_many_attempts, never success, and
\* changes no field of any record.
C5_LockedUnexpiredTooMany ==
  [][\A e \in RawEmails, p \in Purposes, c \in SubmittedCodes :
       (ValidateOtp(e, p, c) /\ NormalizeCode(c) # "") =>
         \A i \in NewestOtp(otps, NormalizeEmail(e), p) :
           (otps[i].attempt_count >= otps[i].max_attempts /\ ~(now > otps[i].expires_at))
             => /\ last'.error_code = "too_many_attempts"
                /\ ~last'.valid
                /\ otps' = otps]_vars

\* the right code was submitted for a locked, unexpired record
C5_Witness ==
  /\ last.op = "validate"
  /\ last.error_code = "too_many_attempts"
  /\ last.matched
  /\ \E i \in 1..Len(otps) :
       otps[i].attempt_count >= otps[i].max_attempts /\ ~otps[i].used /\ ~(now > otps[i].expires_at)

\* C6: issuing a code marks every earlier record of the pair used, and a
\* validate succeeds only with the code of the newest record of the pair, so
\* the value of a superseded code (when it differs) is never accepted.
C6_Supersession ==
  [][/\ \A e \in RawEmails, p \in Purposes, c \in Codes :
          CreateOrRefreshOtp(e, p, c) =>
            \A i \in PairOtps(otps, NormalizeEmail(e), p) : otps'[i].used
     /\ \A e \in RawEmails, p \in Purposes, c \in SubmittedCodes :
          (ValidateOtp(e, p, c) /\ last'.valid) =>
            \A i \in NewestOtp(otps, NormalizeEmail(e), p) : otps[i].code = NormalizeCode(c)]_vars

\* a code issued at time 0 was superseded at time 0, unexpired and unused, by
\* a code of another value, and a submission against the new record failed
C6_Witness ==
  /\ Len(otps) = 2
  /\ otps[1].code # otps[2].code
  /\ otps[1].used
  /\ otps[1].expires_at = 0
  /\ otps[2].attempt_count > 0
  /\ last.op = "validate"
  /\ ~last.valid

\* C7: after any sequence of issue and validate calls executed one at a
\* time, each (email, purpose) pair has at most one record that is unused,
\* unexpired and has attempt_count < max_attempts.
C7_AtMostOneActive ==
  \A e \in {NormalizeEmail(r) : r \in RawEmails}, p \in Purposes :
    Cardinality({i \in PairOtps(otps, e, p) : Active(otps[i], now)}) <= 1

\* a second code was issued for a pair whose first code had been tried, and
\* exactly one record is active
C7_Witness ==
  /\ Len(otps) = 2
  /\ otps[1].attempt_count > 0
  /\ otps[1].used
  /\ Active(otps[2], now)
  /\ last.op = "issue"

\* C8 as stated: when the latest code of the pair has now > expires_at,
\* validate answers code_expired whatever is submitted and whatever
\* attempt_count is, marks the record used and leaves attempt_count alone.
C8_ExpiredAlwaysExpired ==
  [][\A e \in RawEmails, p \in Purposes, c \in SubmittedCodes :
       ValidateOtp(e, p, c) =>
         \A i \in NewestOtp(otps, NormalizeEmail(e), p) :
           now > otps[i].expires_at
             => /\ last'.error_code = "code_expired"
                /\ otps'[i].used
                /\ otps'[i].attempt_count = otps[i].attempt_count]_vars

\* C8 amended: when the latest code of the pair has now > expires_at,
\* validate with any non-blank submission, right or wrong, and whatever
\* attempt_count is, answers code_expired, marks the record used and leaves
\* attempt_count alone.
C8_ExpiredNonBlank ==
  [][\A e \in RawEmails, p \in Purposes, c \in SubmittedCodes :
       (ValidateOtp(e, p, c) /\ NormalizeCode(c) # "") =>
         \A i \in NewestOtp(otps, NormalizeEmail(e), p) :
           now > otps[i].expires_at
             => /\ last'.error_code = "code_expired"
                /\ ~last'.valid
                /\ otps'[i].used
                /\ otps'[i].attempt_count = otps[i].attempt_count]_vars

\* the right code was submitted for a record that is expired and locked
C8_Witness ==
  /\ last.op = "validate"
  /\ last.error_code = "code_expired"
  /\ last.matched
  /\ \E i \in 1..Len(otps) :
       /\ otps[i].attempt_count >= otps[i].max_attempts
       /\ otps[i].used
       /\ now > otps[i].expires_at

\* C9: at every moment at most one backfill run is between acquiring the
\* lock and releasing it.
C9_MutualExclusion ==
  Cardinality({w \in Workers : run[w].pc # "idle"}) <= 1

\* C10: an invocation that finds the lock held returns 'skipped' having
\* issued no query and no lookup, and leaves every row, every profile and
\* the lock entry as they were.
C10_SkipTouchesNothing ==
  [][\A w \in Workers :
       (/\ run[w].pc = "idle"
        /\ LockPresent(lock, now)
        /\ last'.op = "backfill"
        /\ last'.worker = w)
         => /\ last'.status = "skipped"
            /\ last'.dbOps = 0
            /\ last'.geoCalls = 0
            /\ views' = views
            /\ profiles' = profiles
            /\ lock' = lock
            /\ run' = run]_vars

\* an invocation was skipped while another run held the lock and rows were
\* waiting for a place name
C10_Witness ==
  /\ last.op = "backfill"
  /\ last.status = "skipped"
  /\ LockPresent(lock, now)
  /\ \E w \in Workers : run[w].pc = "lookup"
  /\ ViewsWithCoords(views) # {}

\* C11: a run that holds the lock deletes the lock entry exactly in the step
\* in which it returns, on each exit (nothing to fix, completion, error), and
\* in no earlier step; right after the return the key is absent.
C11_ReleasedOnEveryExit ==
  [][\A w \in Workers :
       (run[w].pc # "idle" /\ last'.op = "backfill" /\ last'.worker = w) =>
         IF run'[w].pc = "idle"
           THEN last'.status \in {"success", "error"} /\ IsNone(lock')
           ELSE last'.status = "running" /\ lock' = lock]_vars

\* a run has left by the error exit while rows were waiting, and the key is
\* absent
C11_Witness ==
  /\ last.op = "backfill"
  /\ last.status = "error"
  /\ IsNone(lock)
  /\ \E i \in 1..Len(views) : IsNone(views[i].country) /\ ~IsNone(views[i].latitude)

\* C12: inside the loop of a run, a pair that fails (no data, or the lookup
\* or an update raises) does not end the run: each iteration looks up one
\* more pair of the list, a pair that got names has them written to its
\* waiting rows, and the run leaves the loop only with the list exhausted,
\* every pair looked up, and status 'success'.
C12_FailureDoesNotAbort ==
  [][\A w \in Workers :
       (/\ run[w].pc \in {"lookup", "update_views", "update_visitors", "release"}
        /\ last'.op = "backfill"
        /\ last'.worker = w)
         => /\ (run'[w].pc = "idle" =>
                  /\ last'.status = "success"
                  /\ run[w].todo = {}
                  /\ last'.geoCalls = last'.processed_count)
            /\ (run[w].pc = "lookup" =>
                  /\ run'[w].geoCalls = run[w].geoCalls + 1
                  /\ \E c \in run[w].todo : run'[w].todo = run[w].todo \ {c})
            /\ ((run[w].pc = "update_views" /\ run'[w].pc = "update_visitors") =>
                  \A i \in 1..Len(views) :
                    (/\ <<views[i].latitude, views[i].longitude>> = run[w].cur
                     /\ (IsNone(views[i].country) \/ IsNone(views[i].city)))
                      => /\ (~IsNone(run[w].country) => views'[i].country = run[w].country)
                         /\ (~IsNone(run[w].city) => views'[i].city = run[w].city))]_vars

\* a run over two pairs has ended with 'success', both looked up, one of
\* them updated and the row of the other still without a place
C12_Witness ==
  /\ last.op = "backfill"
  /\ last.status = "success"
  /\ last.processed_count = 2
  /\ last.geoCalls = 2
  /\ last.updated_views = 1
  /\ \E i \in 1..Len(views) : IsNone(views[i].country) /\ IsNone(views[i].city)
  /\ \E i \in 1..Len(views) : ~IsNone(views[i].country) /\ ~IsNone(views[i].city)

\* no row with both coordinates lacks a country or a city
NothingLeft(vs) ==
  \A i \in 1..Len(vs) :
    \/ IsNone(vs[i].latitude)
    \/ IsNone(vs[i].longitude)
    \/ (~IsNone(vs[i].country) /\ ~IsNone(vs[i].city))

\* C13: a run that finds nothing left to fix (as the second of two runs in a
\* row does) and whose query does not raise changes no row and no profile,
\* calls the geocoder zero times, returns 'success' with processed_count = 0
\* and zero updates, and deletes the lock entry.
C13_SecondRunChangesNothing ==
  [][\A w \in Workers :
       (/\ run[w].pc = "select"
        /\ NothingLeft(views)
        /\ last'.op = "backfill"
        /\ last'.worker = w
        /\ last'.status # "error")
         => /\ last'.status = "success"
            /\ last'.processed_count = 0
            /\ last'.geoCalls = 0
            /\ last'.updated_views = 0
            /\ last'.updated_visitors = 0
            /\ views' = views
            /\ profiles' = profiles
            /\ IsNone(lock')
            /\ run'[w].pc = "idle"]_vars

\* a run has found nothing to fix on a table whose two rows an earlier run
\* had given their place names
C13_Witness ==
  /\ last.op = "backfill"
  /\ last.status = "success"
  /\ last.processed_count = 0
  /\ last.dbOps = 1
  /\ IsNone(lock)
  /\ Len(views) = 2
  /\ \A i \in 1..Len(views) : ~IsNone(views[i].country) /\ ~IsNone(views[i].city)

\* C14: a lookup issues no request once more than 60 seconds have elapsed
\* since it started, and a lookup that got only 429 and 5xx responses ends
\* with 'no data', not with an exception.
C14_NoRequestAfterCap ==
  /\ (lk.pc = "request" => lk.elapsed <= max_total_wait_seconds)
  /\ ((lk.pc = "done" /\ lk.only_retryable) => lk.result = "none")

\* the requests of a key counted in the window of a scope that ends now
CountedInWindow(g, key, sc) ==
  Cardinality({n \in 1..Len(g[key].history) : g[key].history[n] > now - duration(sc)})

\* C15: a request is rejected when the requests of its identity counted in
\* the preceding window have reached the limit of its scope: 5 in 15
\* minutes for login, 3 in an hour for signup and for password reset.
C15_LimitsEnforced ==
  [][\A sc \in Scopes, i \in Idents, t \in Targets :
       (/\ AllowRequest(sc, i, t, "up")
        /\ now < gate[get_cache_key(sc, i, t)].expires
        /\ CountedInWindow(gate, get_cache_key(sc, i, t), sc) >= num_requests(sc))
         => last'.outcome # "true"]_vars

\* C16: when the counting backend raises, allow_request of each of the
\* three classes returns True and nothing is propagated or written.
C16_FailsOpen ==
  [][\A sc \in Scopes, i \in Idents, t \in Targets :
       AllowRequest(sc, i, t, "down") => (last'.outcome = "true" /\ gate' = gate)]_vars

\* a request was let through with the backend down while a history was stored
C16_Witness ==
  /\ last.op = "gate"
  /\ last.backend = "down"
  /\ last.outcome = "true"
  /\ \E k \in CacheKeys : Len(gate[k].history) >= SignupRequests

\* C17: a toggle that directly follows a toggle of the same visitor and
\* product undoes it: the row is stored afterwards exactly when it was stored
\* before the first of the two calls, the like_count the second call returns
\* is the product's count before the first call, and from not-liked the two
\* calls answer liked = true and then liked = false
C17_ToggleTwiceRestores ==
  [][\A pr \in LikePairs, ip \in IPs :
       (/\ last.op = "toggleLike"
        /\ last.visitor = pr[1]
        /\ last.product_id = pr[2]
        /\ ToggleLike(pr[1], pr[2], ip))
       => (/\ (pr \in likes') = last.had
           /\ last'.like_count = last.count_before
           /\ (~last.had => (last.liked /\ ~last'.liked)))]_vars

\* a toggle took back the like of one visitor on a product another visitor
\* still likes
C17_Witness ==
  /\ last.op = "toggleLike"
  /\ last.had
  /\ ~last.liked
  /\ <<last.visitor, last.product_id>> \notin likes
  /\ last.like_count = 1
  /\ last.count_before = 2

\* the in-window rows of a product, and its location priority, view count and
\* last view over all of them
ProductRowsIn(vs, p, since) == {i \in InWindow(vs, since) : vs[i].product = p}
ProductPriority(vs, p, since, place) ==
  IF \E i \in ProductRowsIn(vs, p, since) : vs[i].country = place[1] /\ vs[i].city = place[2]
    THEN 2
  ELSE IF \E i \in ProductRowsIn(vs, p, since) : vs[i].country = place[1] THEN 1
  ELSE 0

\* C18: for a visitor with a country and a city, popular lists a product with
\* a view in the visitor's city before one with views in the visitor's
\* country only, and that before one with neither, whatever the counts;
\* products of equal priority come by view count, greatest first, and then
\* by last view, latest first
C18_PopularOrder ==
  (/\ last.op = "popular"
   /\ ~IsNone(VisitorPlace(profiles, last.visitor_id)[1])
   /\ ~IsNone(VisitorPlace(profiles, last.visitor_id)[2]))
  => LET since == PopularSince(last.period, now)
         place == VisitorPlace(profiles, last.visitor_id)
         prio(p) == ProductPriority(views, p, since, place)
         count(p) == Cardinality(ProductRowsIn(views, p, since))
         latest(p) == GreatestViewedAt(views, ProductRowsIn(views, p, since))
     IN  \A i, j \in DOMAIN last.results :
           (i < j /\ last.results[i] # last.results[j])
           => LET a == last.results[i]
                  b == last.results[j]
              IN  \/ prio(a) > prio(b)
                  \/ /\ prio(a) = prio(b)
                     /\ \/ count(a) > count(b)
                        \/ count(a) = count(b) /\ latest(a) >= latest(b)

\* the products of the rows stored for a visitor
StoredViewsOf(vs, v) == {vs[i].product : i \in {j \in DOMAIN vs : vs[j].visitor = v}}

\* C19: also-viewed asked by a known visitor returns no product that visitor
\* has a stored view for, and never the product it was asked about
C19_AlsoViewedExcludesOwn ==
  (/\ last.op = "alsoViewed"
   /\ ~IsNone(last.visitor_id)
   /\ Val(last.visitor_id) \in DOMAIN profiles)
  => \A i \in DOMAIN last.results :
       /\ last.results[i] # last.product_id
       /\ last.results[i] \notin StoredViewsOf(views, Val(last.visitor_id))

\* a product the visitor has viewed leads the co-occurrence ranking of the
\* product asked about, and the answer lists another product instead
C19_Witness ==
  /\ last.op = "alsoViewed"
  /\ ~IsNone(last.visitor_id)
  /\ Val(last.visitor_id) \in DOMAIN profiles
  /\ Len(last.results) >= 1
  /\ LET since == AlsoViewedSince(last.period, now)
         rows  == AlsoViewedRows(views, last.product_id, since, None)
         group(p) == AlsoViewedGroup(views, rows, p)
     IN  \E i \in rows :
           /\ views[i].product \in StoredViewsOf(views, Val(last.visitor_id))
           /\ \A j \in rows : views[j].product # views[i].product
                 => AlsoViewedBefore(group(views[i].product), group(views[j].product))

\* C20: every product that has an image has exactly one image with is_main
\* set; a refused save leaves the table as it was (a ValidationError answers
\* the attempt to unset is_main on the only main image)
C20_ExactlyOneMain ==
  \A p \in Products :
    ImagesOf(images, p) # {} => Cardinality(MainImagesOf(images, p)) = 1

\* C21: the answer to a request for a password-reset code is the generic
\* message with status 200, whether or not the submitted value names an
\* account and whether or not the e-mail could be sent
C21_GenericResponse ==
  last.op = "resetRequest" => (last.status = 200 /\ last.body = "generic_message")

\* C22 as stated: validate with a value other than the code of an active
\* record adds 1 to its attempt_count, leaves it unused, and answers
\* too_many_attempts exactly when the new attempt_count is >= max_attempts,
\* invalid_code otherwise.
C22_WrongAlwaysCounts ==
  [][\A e \in RawEmails, p \in Purposes, c \in SubmittedCodes :
       ValidateOtp(e, p, c) =>
         \A i \in NewestOtp(otps, NormalizeEmail(e), p) :
           (Active(otps[i], now) /\ NormalizeCode(c) # otps[i].code)
             => /\ otps'[i].attempt_count = otps[i].attempt_count + 1
                /\ ~otps'[i].used
                /\ last'.error_code =
                     IF otps[i].attempt_count + 1 >= otps[i].max_attempts
                       THEN "too_many_attempts" ELSE "invalid_code"]_vars

\* C22 amended: validate with a non-blank value other than the code of an
\* active record adds 1 to its attempt_count, changes no other field of it,
\* and answers too_many_attempts exactly when the new attempt_count is >=
\* max_attempts, invalid_code otherwise.
C22_WrongNonBlankCounts ==
  [][\A e \in RawEmails, p \in Purposes, c \in SubmittedCodes :
       (ValidateOtp(e, p, c) /\ NormalizeCode(c) # "") =>
         \A i \in NewestOtp(otps, NormalizeEmail(e), p) :
           (Active(otps[i], now) /\ NormalizeCode(c) # otps[i].code)
             => /\ otps'[i] = [otps[i] EXCEPT !.attempt_count = @ + 1]
                /\ ~otps'[i].used
                /\ ~last'.valid
                /\ last'.error_code =
                     IF otps[i].attempt_count + 1 >= otps[i].max_attempts
                       THEN "too_many_attempts" ELSE "invalid_code"]_vars

\* a wrong value was answered invalid_code and left the record one attempt
\* short of max_attempts
C22_Witness ==
  /\ last.op = "validate"
  /\ last.found
  /\ ~last.matched
  /\ last.error_code = "invalid_code"
  /\ \E i \in 1..Len(otps) :
       /\ otps[i].attempt_count = otps[i].max_attempts - 1
       /\ ~otps[i].used
       /\ ~(now > otps[i].expires_at)

\* C23: a validate call changes no field of a record that is used, expired
\* or locked, except that it may set used; so the attempt_count of a used
\* record is not incremented by a wrong submission.
C23_TerminalFrozen ==
  [][\A e \in RawEmails, p \in Purposes, c \in SubmittedCodes :
       ValidateOtp(e, p, c) =>
         \A i \in 1..Len(otps) :
           ~Active(otps[i], now)
             => \/ otps'[i] = otps[i]
                \/ otps'[i] = [otps[i] EXCEPT !.used = TRUE]]_vars

\* C24: a response with status 429 or any status from 500 to 599 makes the
\* forward and the reverse lookup sleep and go back to the head of the loop
\* instead of returning.
C24_RetriesOnEvery5xx ==
  [][\A resp \in Responses, dur \in Durations :
       (/\ LookupRequest(resp, dur)
        /\ (StatusCode(resp) = 429 \/ StatusCode(resp) \in 500..599))
       => (/\ lk'.pc = "check"
           /\ lk'.elapsed = lk.elapsed + dur + sleep_per_retry_seconds)]_vars

\* C25: after an exception of the transport, a status that is neither a
\* success nor 429 nor 5xx, or a body that does not parse, the lookup
\* returns 'no data' at once; a lookup that has returned issues no request.
C25_NoRetryOnOtherFailures ==
  [][/\ \A resp \in Responses, dur \in Durations :
          (/\ LookupRequest(resp, dur)
           /\ \/ resp \in {"exception", "ok_unparsable"}
              \/ StatusCode(resp) \in (400..499) \ {429})
          => (/\ lk'.pc = "done"
              /\ lk'.result = "none"
              /\ lk'.requests = lk.requests + 1)
     /\ (lk.pc = "done" /\ lk' # lk) => (lk'.pc = "check" /\ lk'.requests = 0)]_vars

\* a reverse lookup was answered 404 after a retry and returned 'no data'
C25_Witness ==
  /\ lk.pc = "done"
  /\ lk.kind = "reverse"
  /\ lk.response = "404"
  /\ lk.requests = 2
  /\ lk.result = "none"

\* C26: ensure for a stored profile whose last_ip differs from the address
\* of the request and whose country and city are missing writes the new
\* last_ip and calls the forward lookup once; what the lookup returns is
\* written to the profile, and a lookup without data leaves the place empty.
C26_EnsureLooksUpPlace ==
  [][\A v \in Visitors, ip \in EnsureIPs, g \in GeoServices :
       (/\ Ensure(v, ip, g)
        /\ v \in DOMAIN profiles
        /\ profiles[v].last_ip # Some(ip)
        /\ IsNone(profiles[v].country)
        /\ IsNone(profiles[v].city))
       => (/\ profiles'[v].last_ip = Some(ip)
           /\ last'.lookups = 1
           /\ (g = "data" => ~IsNone(profiles'[v].country))
           /\ (g = "no_data" => IsNone(profiles'[v].country) /\ IsNone(profiles'[v].city)))]_vars

\* C27: a repeat recordView(v, p) that carries no coordinates, or only
\* coordinates equal to those of the stored row, changes nothing of that row
\* but viewed_at, which becomes the current time; and no recordView(v, p)
\* changes a row of another visitor or another product.
C27_RepeatOnlyRefreshes ==
  [][\A vp \in ViewPairs, ip \in IPs, c \in CoordInputs :
       RecordView(vp[1], vp[2], ip, c[1], c[2]) =>
         /\ \A i \in PairRows(views, vp[1], vp[2]) :
              ((IsNone(c[1]) \/ views[i].latitude = c[1]) /\ (IsNone(c[2]) \/ views[i].longitude = c[2]))
                => views'[i] = [views[i] EXCEPT !.viewed_at = now]
         /\ \A i \in DOMAIN views \ PairRows(views, vp[1], vp[2]) :
              views'[i] = views[i]]_vars

\* a row that carries a place name was viewed again at a later time without
\* a change of location and still carries the name, next to another row
C27_Witness ==
  /\ last.op = "recordView"
  /\ last.duplicate
  /\ ~last.location_changed
  /\ last.had_place
  /\ last.refreshed
  /\ Len(views) >= 2
  /\ \E i \in 1..Len(views) : views[i].viewed_at = now /\ ~IsNone(views[i].country)

\* the stored rows of visitor v
StoredRowsOf(v) == {i \in DOMAIN views : views[i].visitor = v}

\* the greatest viewed_at among the stored rows of visitor v for product p
LatestViewOf(v, p) ==
  GreatestViewedAt(views, {i \in StoredRowsOf(v) : views[i].product = p})

\* C28: the result of recentForVisitor(v, limit) names products of v's stored
\* rows, none twice, in descending order of each product's latest viewed_at,
\* at most limit of them (limit clamped to 1..50, 10 when absent) and, when
\* no wholesale filter is asked for, exactly min(limit, distinct products of
\* v); without a visitor_id or for an unknown visitor the result is empty.
C28_RecentDistinctOrdered ==
  last.op = "recent" =>
    LET res == last.results
        n   == IF IsNone(last.limit) THEN 10
               ELSE IF Val(last.limit) < 1 THEN 1
               ELSE IF Val(last.limit) > 50 THEN 50 ELSE Val(last.limit)
    IN  IF IsNone(last.visitor_id) \/ Val(last.visitor_id) \notin DOMAIN profiles
          THEN res = <<>>
          ELSE LET v    == Val(last.visitor_id)
                   mine == {views[i].product : i \in StoredRowsOf(v)}
               IN  /\ \A k \in DOMAIN res : res[k] \in mine
                   /\ \A j, k \in DOMAIN res : j # k => res[j] # res[k]
                   /\ \A j, k \in DOMAIN res :
                        j < k => LatestViewOf(v, res[j]) >= LatestViewOf(v, res[k])
                   /\ Len(res) <= n
                   /\ (~last.wholesale_only =>
                        Len(res) = (IF n < Cardinality(mine) THEN n ELSE Cardinality(mine)))

\* a visitor with more stored rows than distinct products, and more distinct
\* products than the limit, got exactly limit products
C28_Witness ==
  /\ last.op = "recent"
  /\ ~last.wholesale_only
  /\ last.limit = Some(2)
  /\ ~IsNone(last.visitor_id)
  /\ Val(last.visitor_id) \in DOMAIN profiles
  /\ Len(last.results) = 2
  /\ Cardinality({views[i].product : i \in StoredRowsOf(Val(last.visitor_id))}) = 3
  /\ Cardinality(StoredRowsOf(Val(last.visitor_id))) = 4

\* C29: popular groups the rows of the window by product alone: no product
\* is listed twice, and the view_count of every row of the aggregate is the
\* number of all rows of its product in the window, whatever their country
\* and city.
C29_GroupedByProduct ==
  last.op = "popular" =>
    LET since == PopularSince(last.period, now)
        rows  == InWindow(views, since)
        place == VisitorPlace(profiles, last.visitor_id)
    IN  /\ \A i, j \in DOMAIN last.results : i # j => last.results[i] # last.results[j]
        /\ \A k \in PopularGroupKeys(views, rows) :
             PopularGroup(views, rows, k, place).view_count
               = Cardinality(ProductRowsIn(views, k[1], since))

\* C30: popular asked without a visitor_id, with an unknown one, or by a
\* visitor whose country is null ranks no row by location: every row of the
\* aggregate has location priority 0, rows with null country and city
\* included, and the products come by view count, greatest first, then by
\* last view, latest first.
C30_NoPlaceNoPriority ==
  (/\ last.op = "popular"
   /\ IsNone(VisitorPlace(profiles, last.visitor_id)[1]))
  => LET since == PopularSince(last.period, now)
         rows  == InWindow(views, since)
         place == VisitorPlace(profiles, last.visitor_id)
         count(p) == Cardinality(ProductRowsIn(views, p, since))
         latest(p) == GreatestViewedAt(views, ProductRowsIn(views, p, since))
     IN  /\ \A k \in PopularGroupKeys(views, rows) :
              PopularGroup(views, rows, k, place).location_priority = 0
         /\ \A i, j \in DOMAIN last.results :
              (i < j /\ last.results[i] # last.results[j])
              => LET a == last.results[i]
                     b == last.results[j]
                 IN  \/ count(a) > count(b)
                     \/ count(a) = count(b) /\ latest(a) >= latest(b)

\* the in-period rows, other than those of product p, of the visitors that
\* have an in-period row for p
CoViewRows(p, since) ==
  {i \in DOMAIN views :
     /\ views[i].viewed_at >= since
     /\ views[i].product # p
     /\ \E j \in DOMAIN views :
          /\ views[j].viewed_at >= since
          /\ views[j].product = p
          /\ views[j].visitor = views[i].visitor}

\* the parts of C31 that do not depend on how limit is clamped: a known
\* product gets only co-viewed products, each once, by count of co-view rows
\* and then by their latest viewed_at; nothing when nobody viewed the
\* product in the period; every co-viewed product is a candidate when no
\* known visitor asks; an unknown product is answered 404
AlsoViewedShape(p, v, per, res) ==
  LET since == AlsoViewedSince(per, now)
      rows  == CoViewRows(p, since)
      count(q) == Cardinality({i \in rows : views[i].product = q})
      latest(q) == GreatestViewedAt(views, {i \in rows : views[i].product = q})
  IN  IF p \notin RankProducts
        THEN res.status = 404 /\ res.results = <<>>
        ELSE /\ res.status = 200
             /\ \A k \in DOMAIN res.results : \E i \in rows : views[i].product = res.results[k]
             /\ \A j, k \in DOMAIN res.results : j # k => res.results[j] # res.results[k]
             /\ \A j, k \in DOMAIN res.results :
                  j < k => LET a == res.results[j]
                               b == res.results[k]
                           IN  \/ count(a) > count(b)
                               \/ count(a) = count(b) /\ latest(a) >= latest(b)
             /\ (IsNone(v) \/ Val(v) \notin DOMAIN profiles) =>
                  \A i \in rows :
                    \/ \E k \in DOMAIN res.results : res.results[k] = views[i].product
                    \/ Len(res.results) >= 1 /\
                       \A k \in DOMAIN res.results :
                         \/ count(res.results[k]) > count(views[i].product)
                         \/ /\ count(res.results[k]) = count(views[i].product)
                            /\ latest(res.results[k]) >= latest(views[i].product)

\* C31 as stated: also-viewed returns only co-viewed products in the order
\* of their co-view count and latest view, at most min(limit, 10) of them
\* (10 when no limit is given), nothing when nobody viewed the product,
\* and 404 for an unknown product.
C31_AtMostMinLimit ==
  last.op = "alsoViewed" =>
    /\ AlsoViewedShape(last.product_id, last.visitor_id, last.period, last)
    /\ Len(last.results) <= (IF IsNone(last.limit) THEN 10
                              ELSE IF Val(last.limit) < 10 THEN Val(last.limit) ELSE 10)

\* C31 amended: as above, with at most max(1, min(limit, 10)) entries: a
\* limit below 1 is raised to 1.
C31_AtMostClampedLimit ==
  last.op = "alsoViewed" =>
    /\ AlsoViewedShape(last.product_id, last.visitor_id, last.period, last)
    /\ Len(last.results) <= (IF IsNone(last.limit) THEN 10
                              ELSE IF Val(last.limit) < 1 THEN 1
                              ELSE IF Val(last.limit) < 10 THEN Val(last.limit) ELSE 10)

\* also-viewed answered with two co-viewed products, the first with more
\* co-view rows than the second although its latest view is older
C31_Witness ==
  /\ last.op = "alsoViewed"
  /\ last.status = 200
  /\ Len(last.results) = 2
  /\ LET rows == CoViewRows(last.product_id, AlsoViewedSince(last.period, now))
         mem(q) == {i \in rows : views[i].product = q}
     IN  /\ Cardinality(mem(last.results[1])) > Cardinality(mem(last.results[2]))
         /\ GreatestViewedAt(views, mem(last.results[1])) < GreatestViewedAt(views, mem(last.results[2]))

\* C32: the counters of the three gates are separate: a request counted by
\* the gate of one scope leaves untouched every history that a gate of
\* another scope reads for the same client address.
C32_ScopesSeparate ==
  [][\A sc \in Scopes, i \in Idents, t \in Targets, b \in Backends :
       AllowRequest(sc, i, t, b) =>
         \A other \in Scopes \ {sc}, t2 \in Targets :
           gate'[get_cache_key(other, i, t2)] = gate[get_cache_key(other, i, t2)]]_vars

\* C33: when a backfill run has both names for a pair (lat, lon), its update
\* of the views writes them to every row with exactly that pair and a
\* missing country or city and to no other row, its update of the profiles
\* does the same for the profiles, and no step of a run changes a row or a
\* profile that has both names, or any row's latitude, longitude or
\* viewed_at.
C33_BackfillFrame ==
  [][/\ \A w \in Workers :
          (BackfillUpdateViews(w) /\ ~IsNone(run[w].country) /\ ~IsNone(run[w].city)) =>
            \A i \in DOMAIN views :
              views'[i] = IF /\ <<views[i].latitude, views[i].longitude>> = run[w].cur
                             /\ (IsNone(views[i].country) \/ IsNone(views[i].city))
                            THEN [views[i] EXCEPT !.country = run[w].country, !.city = run[w].city]
                          ELSE views[i]
     /\ \A w \in Workers :
          (BackfillUpdateVisitors(w) /\ ~IsNone(run[w].country) /\ ~IsNone(run[w].city)) =>
            \A v \in DOMAIN profiles :
              profiles'[v] = IF /\ <<profiles[v].latitude, profiles[v].longitude>> = run[w].cur
                                /\ (IsNone(profiles[v].country) \/ IsNone(profiles[v].city))
                               THEN [profiles[v] EXCEPT !.country = run[w].country, !.city = run[w].city]
                             ELSE profiles[v]
     /\ DOMAIN views' = DOMAIN views
     /\ DOMAIN profiles' = DOMAIN profiles
     /\ \A i \in DOMAIN views :
          /\ views'[i].latitude = views[i].latitude
          /\ views'[i].longitude = views[i].longitude
          /\ views'[i].viewed_at = views[i].viewed_at
          /\ (~IsNone(views[i].country) /\ ~IsNone(views[i].city)) => views'[i] = views[i]
     /\ \A v \in DOMAIN profiles :
          (~IsNone(profiles[v].country) /\ ~IsNone(profiles[v].city)) => profiles'[v] = profiles[v]]_vars

\* a run has written both names of its pair to a row, next to a row of
\* other coordinates that carries both names of its own
C33_Witness ==
  \E w \in Workers :
    /\ run[w].pc = "update_visitors"
    /\ ~IsNone(run[w].country)
    /\ ~IsNone(run[w].city)
    /\ \E i, j \in DOMAIN views :
         /\ <<views[i].latitude, views[i].longitude>> = run[w].cur
         /\ views[i].country = run[w].country
         /\ views[i].city = run[w].city
         /\ <<views[j].latitude, views[j].longitude>> # run[w].cur
         /\ ~IsNone(views[j].country)
         /\ ~IsNone(views[j].city)

\* C34: whatever the interleaving of two recordView requests, once no
\* request is in flight the table holds at most one row for each visitor
\* and product (and exactly one for a pair that was recorded).
C34_RaceLeavesOneRow ==
  (\A r \in Requests : req[r].pc = "idle") =>
    \A vp \in RacePairs : Cardinality(PairRows(views, vp[1], vp[2])) <= 1

\* C35: whatever the interleaving of two issue calls for a pair, once no
\* issue is in flight at most one record of the pair is unused and
\* unexpired.
C35_RaceLeavesOneActive ==
  (\A r \in Requests : req[r].pc # "create") =>
    \A e \in RawEmails, p \in Purposes :
      Cardinality({i \in PairOtps(otps, NormalizeEmail(e), p) :
                     ~otps[i].used /\ ~(now > otps[i].expires_at)}) <= 1

\* C37: under every interleaving of validate calls, attempt_count never
\* exceeds max_attempts and at most max_attempts submissions are compared
\* with a code: once the stored attempt_count of a record has reached
\* max_attempts, no validate call on that record compares its submission.
C37_LockoutUnderRace ==
  [][/\ \A i \in DOMAIN otps' : otps'[i].attempt_count <= otps'[i].max_attempts
     /\ \A r \in Requests :
          (ValidateWrite(r) /\ otps[req[r].index].attempt_count >= otps[req[r].index].max_attempts)
            => ~last'.compared]_vars

\* C36: whatever the interleaving of two toggleLike requests, each of them
\* completes without an error, and the liked flag it returns is true exactly
\* when it created the row and false exactly when it deleted it (the table
\* never holds two rows of a pair).
C36_RaceTogglesComplete ==
  (last.op = "toggleLike" /\ last.status # "running") =>
    /\ last.status = "200"
    /\ last.liked = last.created
    /\ ~last.liked = last.deleted

\* C38: a backfill run deletes the lock entry only when that entry is the
\* one it created itself: no exit of a run removes an entry that another
\* run has added after the run's own entry expired.
C38_ReleasesOwnLockOnly ==
  [][\A w \in Workers :
       ((BackfillRelease(w) \/ BackfillNothingToFix(w) \/ BackfillError(w))
        /\ LockPresent(lock, now))
         => Val(lock).owner = w]_vars

\* C39: when tracking requests interleave with a backfill run, every row
\* the run's update changes has, at the moment of the update, exactly the
\* latitude and longitude the names were looked up for: a row whose
\* coordinates were changed after the run selected it is left alone.
C39_BackfillWritesMatchingRows ==
  [][\A w \in Workers :
       BackfillUpdateViews(w) =>
         \A i \in DOMAIN views :
           views'[i] # views[i] =>
             /\ <<views[i].latitude, views[i].longitude>> = run[w].cur
             /\ <<views'[i].latitude, views'[i].longitude>> = run[w].cur]_vars

\* a run has looked up both names for a pair and its update found no row,
\* the row it selected having been given other coordinates in between
C39_Witness ==
  \E w \in Workers :
    /\ run[w].pc = "update_visitors"
    /\ ~IsNone(run[w].country)
    /\ ~IsNone(run[w].city)
    /\ run[w].updated_views = 0
    /\ \E i \in DOMAIN views :
         /\ ~IsNone(views[i].latitude)
         /\ ~IsNone(views[i].longitude)
         /\ <<views[i].latitude, views[i].longitude>> # run[w].cur
         /\ IsNone(views[i].country)
         /\ IsNone(views[i].city)

\* C40: an account is created, and the password of an existing account is
\* replaced, only by a request in which validate_otp returned valid for the
\* address of that account, with purpose signup for a creation and
\* password_reset for a replacement.
C40_OnlyAfterValidOtp ==
  [][\A a \in accounts' \ accounts :
       /\ ~IsNone(last'.otp)
       /\ Val(last'.otp).valid
       /\ Val(last'.otp).email = a.email
       /\ Val(last'.otp).purpose =
            (IF \E b \in accounts : b.email = a.email THEN "password_reset" ELSE "signup")]_vars

\* the two endpoints that call validate_otp write the table only after a
\* valid result for the address and the purpose
CodeEndpointsAfterValidOtp ==
  [][last'.op \in {"signupVerify", "resetConfirm"} =>
       \A a \in accounts' \ accounts :
         /\ ~IsNone(last'.otp)
         /\ Val(last'.otp).valid
         /\ Val(last'.otp).email = a.email
         /\ Val(last'.otp).purpose =
              (IF \E b \in accounts : b.email = a.email THEN "password_reset" ELSE "signup")]_vars

\* reached: a password replaced after a valid code
CodeEndpointsActed ==
  /\ last.op = "resetConfirm" /\ last.status = 200
  /\ \E a \in accounts : a.username = "bob" /\ a.password = "passw0rd2"

====
